---- MODULE Spec2Model ----
(***************************************************************************)
(* Batched line engine (DisconnectedLines, src/three-lines.tsx): the line  *)
(* store, the segment buffer builder, and the pointer / delete-line        *)
(* handlers, as a state machine.                                           *)
(*                                                                         *)
(* Conventions                                                             *)
(*  - JS arrays are TLA+ sequences; every index that appears in the state  *)
(*    or in a formula is the 0-based index of the source (array a, index i *)
(*    is a[i + 1]).                                                        *)
(*  - null is Null (-1) for the index-valued state, and a record with      *)
(*    isNull = TRUE for lineData.                                          *)
(*  - A coordinate n stands for the real number 0.6 n (so the spacing 30   *)
(*    of the grid is 50 and the local range 12 is 20), a colour component  *)
(*    n for n / 100.  A point is a triple <<x, y, z>>; an undefined array  *)
(*    element (a hole left by an assignment past the end) is Undefined.    *)
(*  - Math.random() is an input: seed names the outcome of the calls made  *)
(*    while the initial lines are generated.                               *)
(*  - React state is held twice: the state variables are the latest values *)
(*    set by setX(...); `rendered` is the snapshot of the last committed   *)
(*    render, which is what the registered listeners (closures) read.      *)
(*    A render is committed first and its passive effects (which         *)
(*    register the listeners again) run later, with one exception: the   *)
(*    render of an update made in a discrete event (click, contextmenu)  *)
(*    renders that update alone and flushes its effects in the commit.   *)
(***************************************************************************)
EXTENDS Integers, Sequences, FiniteSets, TLC

\* ---------------------------------------------------------------- bounds
\* numLines and pointsPerLine are 5000 and 50 in the source; scaled down.
numLines == 2
pointsPerLine == 2
\* Cap on the points of one line (add-point is not offered beyond it).
MaxPoints == 4
\* Cap on the number of events handled in one behaviour.
MaxEvents == 4

Null == -1
Undefined == <<>>

\* Where a ray can meet the scene: the intersection points handed to the
\* click handler and to the drag-plane intersection.
PointPool == {<<1, 0, 0>>, <<5, 3, 0>>}

\* ------------------------------------------------------- arrays (0-based)
At(a, i) == a[i + 1]

\* Mutant of SpliceRemove: the last element is removed, whatever i.
SpliceRemoveLast(a, i) == SubSeq(a, 1, Len(a) - 1)

\* Array.prototype.splice(i, 1) on a copy: removes element i when it exists.
SpliceRemove(a, i) ==
  IF i >= 0 /\ i < Len(a)
    THEN SubSeq(a, 1, i) \o SubSeq(a, i + 2, Len(a))
    ELSE a

\* Mutant of SpliceInsert: the element is pushed at the end, whatever i.
SpliceInsertPush(a, i, x) == Append(a, x)

\* Mutant of SpliceInsert: the item always goes in at index 1.
SpliceInsertSecond(a, i, x) ==
  IF Len(a) = 0 THEN <<x>> ELSE <<a[1], x>> \o SubSeq(a, 2, Len(a))

\* Array.prototype.splice(i, 0, x) on a copy: i is clamped to the length.
SpliceInsert(a, i, x) ==
  LET k == IF i > Len(a) THEN Len(a) ELSE i
  IN SubSeq(a, 1, k) \o <<x>> \o SubSeq(a, k + 1, Len(a))

\* a[i] = x on a copy: past the end the array grows and the skipped
\* elements are holes.
AssignAt(a, i, x) ==
  IF i < Len(a)
    THEN [a EXCEPT ![i + 1] = x]
    ELSE a \o [k \in 1..(i - Len(a)) |-> Undefined] \o <<x>>

\* --------------------------------------------------------------- Float32
\* Float32Array element store of a coordinate: Math.fround of the double
\* 0.6 n.  0.6 n is a Float32 exactly when n is a multiple of 5 (a multiple
\* of 3); any other value is rounded to a neighbouring Float32, which is a
\* different number.  Numbers are coded as 2n (the double) and 2n + 1 (the
\* Float32 nearest to it when that is not the double itself).
Double(n) == 2 * n

F32(n) == IF n % 5 = 0 THEN 2 * n ELSE 2 * n + 1

\* Float32Array element store of a colour component n / 100, a Float32
\* exactly when it is a multiple of 1/4.
ColorF32(n) == IF n % 25 = 0 THEN 2 * n ELSE 2 * n + 1

\* A fresh Float32Array(n) is zero-filled.
ZeroF32 == F32(0)

\* ------------------------------------------------------- initial store
\* hue2rgb of Color.setHSL for saturation 0.8 and lightness 0.6 (the two
\* levels are 0.28 and 0.92), at t = T / D, in hundredths.
Hue2Rgb(T, D) ==
  LET U == IF T < 0 THEN T + D ELSE IF T > D THEN T - D ELSE T
  IN IF 6 * U < D THEN 28 + (64 * 6 * U) \div D
     ELSE IF 2 * U < D THEN 92
     ELSE IF 3 * U < 2 * D THEN 28 + (64 * (4 * D - 6 * U)) \div D
     ELSE 28

\* The colour of a line: new Color().setHSL(lineIndex / numLines, 0.8, 0.6),
\* the hue taken in units of 1 / (3 numLines).
InitColor(lineIndex) ==
  LET D == 3 * numLines
      T == 3 * lineIndex
  IN <<Hue2Rgb(T + numLines, D), Hue2Rgb(T, D), Hue2Rgb(T - numLines, D)>>

\* Math.ceil(Math.pow(numLines, 1 / 3))
gridSize == CHOOSE g \in 1..numLines :
              g * g * g >= numLines /\ (g - 1) * (g - 1) * (g - 1) < numLines

\* The outcomes of Math.random() the model draws from.
Seeds == {0, 1}

\* (Math.random() - 0.5) * localRange of the k-th call, a value of
\* [-6, 6): -10..9 in units of 0.6.
RandomOffset(s, k) == ((7 * s + 11 * k + 3) % 20) - 10

VARIABLE seed       \* the outcomes of Math.random() at mount

\* The point pointIndex of line lineIndex generated with the random
\* outcomes s: the centre of the line's cell of the grid plus an offset on
\* each axis.
InitPointOf(s, lineIndex, pointIndex) ==
  LET gridX == lineIndex % gridSize
      gridY == (lineIndex \div gridSize) % gridSize
      gridZ == lineIndex \div (gridSize * gridSize)
      \* (grid - gridSize / 2) * spacing
      center(g) == (2 * g - gridSize) * 25
      k == 3 * (lineIndex * pointsPerLine + pointIndex)
  IN <<center(gridX) + RandomOffset(s, k),
       center(gridY) + RandomOffset(s, k + 1),
       center(gridZ) + RandomOffset(s, k + 2)>>

\* The initial points of a line: random in the source, inside the line's
\* own cell of the grid.
InitPoint(lineIndex, pointIndex) == InitPointOf(seed, lineIndex, pointIndex)

\* Mutant of SegmentFloats: the two endpoints written in the wrong order.
SegmentFloatsSwapped(point1, point2) ==
  <<F32(point2[1]), F32(point2[2]), F32(point2[3]),
    F32(point1[1]), F32(point1[2]), F32(point1[3])>>

\* The 6 numbers one segment adds to a Float32Array: the components of its
\* two endpoints, each stored as a Float32.
SegmentFloats(point1, point2) ==
  <<F32(point1[1]), F32(point1[2]), F32(point1[3]),
    F32(point2[1]), F32(point2[2]), F32(point2[3])>>

\* The 6 numbers one segment adds to a colour buffer: the components of
\* the line's colour, twice, each stored as a Float32.
ColorFloats(color) ==
  <<ColorF32(color[1]), ColorF32(color[2]), ColorF32(color[3]),
    ColorF32(color[1]), ColorF32(color[2]), ColorF32(color[3])>>

\* Sum over a sequence of naturals.
RECURSIVE SumSeq(_)
SumSeq(s) == IF s = <<>> THEN 0 ELSE Head(s) + SumSeq(Tail(s))

\* Concatenation of a sequence of sequences, in order.
RECURSIVE Flatten(_)
Flatten(ss) == IF ss = <<>> THEN <<>> ELSE Head(ss) \o Flatten(Tail(ss))

\* useMemo initialLineData, with the outcomes random of Math.random():
\* numLines lines of pointsPerLine points, and the buffers filled line by
\* line, segmentsPerLine segments for every line.
initialLineDataOf(random) ==
  LET segmentsPerLine == pointsPerLine - 1
      totalSegments == numLines * segmentsPerLine
      totalPoints == totalSegments * 2
      linePoints == [l \in 1..numLines |->
                       [p \in 1..pointsPerLine |->
                          InitPointOf(random, l - 1, p - 1)]]
      lineColors == [l \in 1..numLines |-> InitColor(l - 1)]
      \* what the nested loops write, in write order
      written == Flatten([l \in 1..numLines |->
                   Flatten([s \in 1..segmentsPerLine |->
                     SegmentFloats(linePoints[l][s], linePoints[l][s + 1])])])
      writtenColors == Flatten([l \in 1..numLines |->
                   Flatten([s \in 1..segmentsPerLine |->
                     ColorFloats(lineColors[l])])])
      fill(w) == SubSeq(w \o [k \in 1..(totalPoints * 3) |-> ZeroF32],
                        1, totalPoints * 3)
  IN [isNull |-> FALSE,
      positions |-> fill(written),
      colors |-> fill(writtenColors),
      originalColors |-> fill(writtenColors),
      segmentToLineMap |-> Flatten([l \in 1..numLines |->
                             [s \in 1..segmentsPerLine |-> l - 1]]),
      lineColors |-> lineColors,
      segmentsPerLine |-> segmentsPerLine,
      linePoints |-> linePoints]

\* initialLineData of the mounted component.
initialLineData == initialLineDataOf(seed)

\* useState<LineData | null>(null)
NullLineData ==
  [isNull |-> TRUE, positions |-> <<>>, colors |-> <<>>,
   originalColors |-> <<>>, segmentToLineMap |-> <<>>, lineColors |-> <<>>,
   segmentsPerLine |-> 0, linePoints |-> <<>>]

\* ------------------------------------------------------ rebuildGeometry
\* Mutant of CountedSegments: counts the points of a line, not its segments.
CountedPoints(points) == IF Len(points) > 1 THEN Len(points) ELSE 0

\* First loop of rebuildGeometry: the segments a line counts for.
CountedSegments(points) == IF Len(points) > 1 THEN Len(points) - 1 ELSE 0

\* Second loop of rebuildGeometry: whether a line is emitted.
Emitted(points) == ~(Len(points) < 2)

\* Mutant of SegmentsInLine: the loop stops one segment early.
SegmentsInLineShort(points) == Len(points) - 2

\* Second loop of rebuildGeometry: segmentsInLine of an emitted line.
SegmentsInLine(points) == Len(points) - 1

\* rebuildGeometry(newLinePoints, lineColors).  threw: reading point1[0] or
\* point2[0] of an undefined element raises a TypeError, and nothing is
\* returned.  Otherwise the buffers have the size computed by the first loop
\* and hold what the second loop writes (a write past the end of a typed
\* array is dropped, an element never written stays 0).
rebuildGeometry(newLinePoints, lineColors) ==
  LET n == Len(newLinePoints)
      totalSegments == SumSeq([i \in 1..n |-> CountedSegments(newLinePoints[i])])
      totalPoints == totalSegments * 2
      threw == \E i \in 1..n :
                 /\ Emitted(newLinePoints[i])
                 /\ \E k \in 1..Len(newLinePoints[i]) :
                       newLinePoints[i][k] = Undefined
      lineSegs(i) == IF Emitted(newLinePoints[i])
                       THEN SegmentsInLine(newLinePoints[i]) ELSE 0
      written == Flatten([i \in 1..n |->
                   Flatten([s \in 1..lineSegs(i) |->
                     SegmentFloats(newLinePoints[i][s], newLinePoints[i][s + 1])])])
      writtenColors == Flatten([i \in 1..n |->
                   Flatten([s \in 1..lineSegs(i) |->
                     ColorFloats(lineColors[i])])])
      fill(w) == SubSeq(w \o [k \in 1..(totalPoints * 3) |-> ZeroF32],
                        1, totalPoints * 3)
  IN IF threw
       THEN [threw |-> TRUE, positions |-> <<>>, colors |-> <<>>,
             originalColors |-> <<>>, segmentToLineMap |-> <<>>]
       ELSE [threw |-> FALSE,
             positions |-> fill(written),
             colors |-> fill(writtenColors),
             originalColors |-> fill(writtenColors),
             segmentToLineMap |-> Flatten([i \in 1..n |->
                                    [s \in 1..lineSegs(i) |-> i - 1]])]

\* { ...geometryData, lineColors, segmentsPerLine, linePoints }
NewLineData(geometryData, lineColors, segmentsPerLine, linePoints) ==
  [isNull |-> FALSE,
   positions |-> geometryData.positions,
   colors |-> geometryData.colors,
   originalColors |-> geometryData.originalColors,
   segmentToLineMap |-> geometryData.segmentToLineMap,
   lineColors |-> lineColors,
   segmentsPerLine |-> segmentsPerLine,
   linePoints |-> linePoints]

\* ------------------------------------------------------ store operations
\* Each operation reads the lineData of the render that created it and
\* returns what it did: set (setLineData was called, with lineData), threw
\* (a TypeError left the handler) and refused (the early return).

\* Mutant of deleteLine: the line is spliced out of the arrays, so the
\* lines after it move down one index.
deleteLineSplice(lineData, lineIndex) ==
  IF lineData.isNull
    THEN [set |-> FALSE, threw |-> FALSE, refused |-> TRUE, lineData |-> lineData]
    ELSE
      LET newLinePoints == SpliceRemove(lineData.linePoints, lineIndex)
          newLineColors == SpliceRemove(lineData.lineColors, lineIndex)
          geometryData == rebuildGeometry(newLinePoints, newLineColors)
      IN [set |-> TRUE, threw |-> FALSE, refused |-> FALSE,
          lineData |-> NewLineData(geometryData, newLineColors,
                                   lineData.segmentsPerLine, newLinePoints)]

\* deleteLine(lineIndex): the line's entry becomes [] and the buffers are
\* rebuilt.  (Its setSelectedLineIndex(null) and removeSpheres() are in the
\* handler action.)
deleteLine(lineData, lineIndex) ==
  IF lineData.isNull
    THEN [set |-> FALSE, threw |-> FALSE, refused |-> TRUE, lineData |-> lineData]
    ELSE
      LET newLinePoints == AssignAt(lineData.linePoints, lineIndex, <<>>)
          newLineColors == lineData.lineColors
          geometryData == rebuildGeometry(newLinePoints, newLineColors)
      IN [set |-> TRUE, threw |-> FALSE, refused |-> FALSE,
          lineData |-> NewLineData(geometryData, newLineColors,
                                   lineData.segmentsPerLine, newLinePoints)]

\* Mutant of DeletePointRefused: refuses only below 2 points.
DeletePointRefusedBelowTwo(lineData, lineIndex) ==
  \/ ~(lineIndex >= 0 /\ lineIndex < Len(lineData.linePoints))
  \/ Len(At(lineData.linePoints, lineIndex)) < 2

\* The guard of deletePoint: no line, or a line of 2 points or fewer.
DeletePointRefused(lineData, lineIndex) ==
  \/ ~(lineIndex >= 0 /\ lineIndex < Len(lineData.linePoints))
  \/ Len(At(lineData.linePoints, lineIndex)) <= 2

\* deletePoint(lineIndex, pointIndex)
deletePoint(lineData, lineIndex, pointIndex) ==
  IF lineData.isNull \/ DeletePointRefused(lineData, lineIndex)
    THEN [set |-> FALSE, threw |-> FALSE, refused |-> TRUE, lineData |-> lineData]
    ELSE
      LET currentPoints == At(lineData.linePoints, lineIndex)
          newPoints == SpliceRemove(currentPoints, pointIndex)
          newLinePoints == AssignAt(lineData.linePoints, lineIndex, newPoints)
          geometryData == rebuildGeometry(newLinePoints, lineData.lineColors)
      IN [set |-> TRUE, threw |-> FALSE, refused |-> FALSE,
          lineData |-> NewLineData(geometryData, lineData.lineColors,
                                   lineData.segmentsPerLine, newLinePoints)]

\* Mutant of updatePointPosition: the buffers are rebuilt from the points
\* before the move.
updatePointPositionStaleBuffers(lineData, lineIndex, pointIndex, newPosition) ==
  IF lineData.isNull
    THEN [set |-> FALSE, threw |-> FALSE, refused |-> TRUE, lineData |-> lineData]
  ELSE IF ~(lineIndex >= 0 /\ lineIndex < Len(lineData.linePoints))
    THEN [set |-> FALSE, threw |-> TRUE, refused |-> FALSE, lineData |-> lineData]
  ELSE
    LET newPoints == AssignAt(At(lineData.linePoints, lineIndex), pointIndex,
                              newPosition)
        newLinePoints == AssignAt(lineData.linePoints, lineIndex, newPoints)
        geometryData == rebuildGeometry(lineData.linePoints, lineData.lineColors)
    IN [set |-> TRUE, threw |-> FALSE, refused |-> FALSE,
        lineData |-> NewLineData(geometryData, lineData.lineColors,
                                 lineData.segmentsPerLine, newLinePoints)]

\* updatePointPosition(lineIndex, pointIndex, newPosition).  There is no
\* bounds check: spreading an undefined line raises a TypeError, an
\* assignment past the end grows the copy, and rebuildGeometry raises on a
\* hole it reads.
updatePointPosition(lineData, lineIndex, pointIndex, newPosition) ==
  IF lineData.isNull
    THEN [set |-> FALSE, threw |-> FALSE, refused |-> TRUE, lineData |-> lineData]
  ELSE IF ~(lineIndex >= 0 /\ lineIndex < Len(lineData.linePoints))
    THEN [set |-> FALSE, threw |-> TRUE, refused |-> FALSE, lineData |-> lineData]
  ELSE
    LET newPoints == AssignAt(At(lineData.linePoints, lineIndex), pointIndex,
                              newPosition)
        newLinePoints == AssignAt(lineData.linePoints, lineIndex, newPoints)
        geometryData == rebuildGeometry(newLinePoints, lineData.lineColors)
    IN IF geometryData.threw
         THEN [set |-> FALSE, threw |-> TRUE, refused |-> FALSE,
               lineData |-> lineData]
         ELSE [set |-> TRUE, threw |-> FALSE, refused |-> FALSE,
               lineData |-> NewLineData(geometryData, lineData.lineColors,
                                        lineData.segmentsPerLine, newLinePoints)]

\* A point is a coordinate triple, or a triple with a fourth entry e (-1 or
\* 1): the point whose x is e * eta, for a positive double eta so small
\* (1e-30) that adding it to a non-zero coordinate of the model gives back
\* that coordinate.  Only 0 is displaced so: 0 + e * eta is a double of its
\* own, while 0.6 * n + e * eta is the double 0.6 * n.
Displaced(p) == Len(p) = 4

\* The coordinates the double arithmetic works with once the displacement
\* is absorbed.
Seen(p) == <<p[1], p[2], p[3]>>

\* Every displacement is absorbed in the scan of points for q: a displaced
\* point is subtracted only from points whose x is not 0 (its neighbours in
\* the sequence and q), so subVectors, sub and distanceTo return what they
\* return for the point not displaced.
Absorbed(points, q) ==
  (\E k \in 1..Len(points) : Displaced(points[k])) =>
    /\ q[1] # 0
    /\ \A k \in 1..Len(points) :
         Displaced(points[k]) =>
           /\ k > 1 => ~Displaced(points[k - 1]) /\ points[k - 1][1] # 0
           /\ k < Len(points) =>
                ~Displaced(points[k + 1]) /\ points[k + 1][1] # 0

\* Vector3 arithmetic on the coordinates seen, as real numbers: the code's
\* results are these values rounded to doubles.  The rounding shows where
\* two distances that are equal on the coordinates seen are compared (see
\* ClosestLoop): these are the distances that are equal as real numbers
\* and, for displaced points, distances that differ as real numbers by
\* less than the arithmetic resolves.
Sub(a, b) == <<a[1] - b[1], a[2] - b[2], a[3] - b[3]>>

Dot(a, b) == a[1] * b[1] + a[2] * b[2] + a[3] * b[3]

\* The squared distance from q to segment p1 p2 (of non-zero length), as a
\* fraction <<numerator, denominator>>: the projection parameter t is
\* clamped to [0, 1].
SegmentDistance2(p1, p2, q) ==
  LET line == Sub(p2, p1)
      len2 == Dot(line, line)
      w == Sub(q, p1)
      s == Dot(w, line)
  IN IF s <= 0 THEN <<Dot(w, w), 1>>
     ELSE IF s >= len2 THEN <<Dot(Sub(q, p2), Sub(q, p2)), 1>>
     ELSE <<Dot(w, w) * len2 - s * s, len2>>

\* Fractions <<numerator, denominator>> compared by whole part, then by
\* remainder.
FracLess(a, b) ==
  \/ a[1] \div a[2] < b[1] \div b[2]
  \/ /\ a[1] \div a[2] = b[1] \div b[2]
     /\ (a[1] % a[2]) * b[2] < (b[1] % b[2]) * a[2]

FracEq(a, b) ==
  /\ a[1] \div a[2] = b[1] \div b[2]
  /\ (a[1] % a[2]) * b[2] = (b[1] % b[2]) * a[2]

\* The outcomes of the rounding in the scan of points for q: lower is the
\* set of segments whose computed distance comes out, as a double, below
\* the computed distances that are equal to it on the coordinates seen
\* (those of the segments not in lower); for a distance that is 0 there,
\* the segments whose computed distance is the double 0.  Only the
\* segments at the minimal distance matter, and only when there are two of
\* them.
Rounding(points, q) ==
  IF \E k \in 1..Len(points) : points[k] = Undefined THEN {{}}
  ELSE
    LET segments == {i \in 0..(Len(points) - 2) :
                       At(points, i) # At(points, i + 1)}
        d(i) == SegmentDistance2(At(points, i), At(points, i + 1), q)
        nearest == {i \in segments :
                      \A j \in segments : ~FracLess(d(j), d(i))}
    IN IF \E i, j \in nearest : i # j THEN SUBSET nearest ELSE {{}}

\* The projection of q on segment p1 p2 is clamped to p1 with t = 0 as a
\* double: q is p1, or the dot product is negative.
ClampedToStart(p1, p2, q) ==
  \/ q = p1
  \/ Dot(Sub(q, p1), Sub(p2, p1)) < 0

\* The distances of q to segments a and b (pairs of end points) are the
\* same computation, hence the same double: the same end points seen in
\* the same order, or closestPoint is the same first end point.
SameDouble(a, b, q) ==
  \/ Seen(a[1]) = Seen(b[1]) /\ Seen(a[2]) = Seen(b[2])
  \/ /\ Seen(a[1]) = Seen(b[1])
     /\ ClampedToStart(a[1], a[2], q)
     /\ ClampedToStart(b[1], b[2], q)

\* Where the computed distance of q to segment i of points stands among
\* the computed distances equal to it on the coordinates seen: 0 for the
\* double 0 (q is the first end point, or the distance is 0 and the
\* rounding gives 0), 1 for the lower ones, 2 for the others.  The first
\* segment with the same computation decides.
RoundingRank(points, q, i, lower) ==
  LET seg(j) == <<At(points, j), At(points, j + 1)>>
      same == {j \in 0..i : SameDouble(seg(j), seg(i), q)}
      first == CHOOSE j \in same : \A k \in same : j <= k
  IN IF q = At(points, i) THEN 0
     ELSE IF first \notin lower THEN 2
     ELSE IF SegmentDistance2(At(points, i), At(points, i + 1), q)[1] = 0
       THEN 0
     ELSE 1

\* The loop of findClosestSegment from segment i on: closest is the index
\* kept so far and min its distance (<<0, 0>> stands for +Infinity).  The
\* test distance < minDistance is made on doubles, computed from the
\* coordinates seen: it is the test on their exact distances when these
\* differ; when they are equal the doubles may differ in the last bit
\* either way (RoundingRank), whatever the order of the real distances.
\* lineLength is 0 only for two equal points (a displaced point is not the
\* point it is displaced from).
RECURSIVE ClosestLoop(_, _, _, _, _, _)
ClosestLoop(points, q, i, closest, min, lower) ==
  IF ~(i < Len(points) - 1) THEN closest
  ELSE
    LET p1 == At(points, i)
        p2 == At(points, i + 1)
    IN IF p1 = p2 THEN ClosestLoop(points, q, i + 1, closest, min, lower)
       ELSE
         LET d == SegmentDistance2(p1, p2, q)
             less == \/ min[2] = 0
                     \/ /\ min[2] # 0
                        /\ \/ FracLess(d, min)
                           \/ /\ FracEq(d, min)
                              /\ RoundingRank(points, q, i, lower) <
                                   RoundingRank(points, q, closest, lower)
         IN IF less THEN ClosestLoop(points, q, i + 1, i, d, lower)
                    ELSE ClosestLoop(points, q, i + 1, closest, min, lower)

\* findClosestSegment(lineIndex, intersectionPoint)
findClosestSegment(lineData, lineIndex, intersectionPoint, lower) ==
  IF lineData.isNull THEN -1
  ELSE ClosestLoop(At(lineData.linePoints, lineIndex), intersectionPoint,
                   0, 0, <<0, 0>>, lower)

\* addPointToLine(lineIndex, intersectionPoint): insertIndex is where the
\* point went.  (The new sphere is added in the handler action.)
addPointToLine(lineData, lineIndex, intersectionPoint, lower) ==
  IF lineData.isNull
    THEN [set |-> FALSE, threw |-> FALSE, refused |-> TRUE,
          lineData |-> lineData, insertIndex |-> -1]
    ELSE
      LET segmentIndex == findClosestSegment(lineData, lineIndex,
                                             intersectionPoint, lower)
          insertIndex == segmentIndex + 1
          currentPoints == SpliceInsert(At(lineData.linePoints, lineIndex),
                                        insertIndex, intersectionPoint)
          newLinePoints == AssignAt(lineData.linePoints, lineIndex, currentPoints)
          geometryData == rebuildGeometry(newLinePoints, lineData.lineColors)
      IN [set |-> TRUE, threw |-> FALSE, refused |-> FALSE,
          lineData |-> NewLineData(geometryData, lineData.lineColors,
                                   lineData.segmentsPerLine, newLinePoints),
          insertIndex |-> insertIndex]

\* ----------------------------------------------------------------- state
VARIABLES
  lineData,           \* useState<LineData | null>: latest value set
  selectedLineIndex,  \* useState<number | null>
  hoveredLineIndex,   \* useState<number | null>
  isDragging,         \* useState(false)
  draggedSphere,      \* useState<Mesh | null>: the mesh referred to
  lineDataSet,        \* setLineData was called since the last commit
  rendered,           \* the state values of the render whose effects ran
                      \* last: what the registered listeners closed over
  pending,            \* the committed render whose passive effects have
                      \* not run yet
  listeners,          \* the event types a listener is registered for
  sync,               \* the updates made in discrete events (click,
                      \* contextmenu) that are not rendered yet
  lineRef,            \* lineRef.current is set
  spheres,            \* spheresRef.current (= the spheres in the scene)
  orbitEnabled,       \* orbitControlsRef.current.enabled
  geometryColors,     \* the colour attribute of the rendered geometry
  geometry,           \* the LineSegmentsGeometry of the last render: the
                      \* number of geometries constructed so far (0: null)
  overlay,            \* what the parent component was last told
  last,               \* the event handled last and what it did
  afterDelete,        \* history: a delete-line command was honoured and no
                      \* click has selected a line since
  gesture,            \* history: "down" from a mousedown that started a
                      \* drag, through the mousemoves, to the next mouseup;
                      \* "up" from that mouseup until a render is committed
                      \* or an effect runs (the browser dispatches the click
                      \* of the gesture in the task of the mouseup, before
                      \* either); "none" otherwise
  events,             \* number of events handled
  run,                \* one execution of rebuildGeometry, statement by
                      \* statement (used by SpecRebuild only)
  trial,              \* store operations applied to a given store (used by
                      \* SpecStore only)
  multiple            \* the per-line engine DisconnectedLinesMultiple (used
                      \* by SpecMultiple only)

engineVars == <<lineData, selectedLineIndex, hoveredLineIndex, isDragging,
                draggedSphere, lineDataSet, rendered, lineRef, spheres,
                orbitEnabled, geometryColors, geometry, overlay, last,
                afterDelete, gesture, events, pending, listeners, sync,
                seed>>

vars == <<engineVars, run, trial, multiple>>

engineState == <<lineData, selectedLineIndex, hoveredLineIndex, isDragging,
                 draggedSphere, lineDataSet>>

NoSphere == [id |-> Null, lineIndex |-> Null, pointIndex |-> Null]

\* The values a render closes over.
Snapshot(ld, sel, hov, drag, sphere) ==
  [lineData |-> ld, selectedLineIndex |-> sel, hoveredLineIndex |-> hov,
   isDragging |-> drag, draggedSphere |-> sphere]

Event(ev, op, lineIndex, pointIndex, outcome) ==
  [ev |-> ev, op |-> op, lineIndex |-> lineIndex, pointIndex |-> pointIndex,
   outcome |-> outcome]

\* Component.handleDebugUpdate: the parent keeps the hovered and selected
\* line it is told.
onDebugUpdate(ov, hoveredLine, selectedLine) ==
  [ov EXCEPT !.hoveredLineIndex = hoveredLine,
             !.selectedLineIndex = selectedLine]

\* Component's onLineDeleted prop: clears the parent's selection; deleted
\* keeps the line indices it was called with.
onLineDeleted(ov, lineIndex) ==
  [ov EXCEPT !.selectedLineIndex = Null,
             !.deleted = ov.deleted \cup {lineIndex}]

\* --------------------------------------------------------------- spheres
\* Identities for new meshes: the smallest numbers no live mesh uses.
RECURSIVE FreshIds(_, _)
FreshIds(used, n) ==
  IF n = 0 THEN <<>>
  ELSE LET x == CHOOSE m \in 0..Cardinality(used) :
                  m \notin used /\ \A j \in 0..(m - 1) : j \in used
       IN <<x>> \o FreshIds(used \cup {x}, n - 1)

\* removeSpheres()
removeSpheres == <<>>

\* createSpheresForLine(lineIndex) of the render that closed over ld: one
\* sphere per point, tagged (lineIndex, index).
createSpheresForLine(ld, lineIndex, old, used) ==
  IF ld.isNull THEN old
  ELSE
    LET points == At(ld.linePoints, lineIndex)
        ids == FreshIds(used, Len(points))
    IN [index \in 1..Len(points) |->
          [id |-> ids[index], lineIndex |-> lineIndex,
           pointIndex |-> index - 1, position |-> points[index],
           isNewPoint |-> FALSE]]

\* Ids of meshes still referred to as the dragged sphere: by the state, by
\* the registered listeners, or by the render waiting for its effects.  A
\* new Mesh is none of them.
HeldIds ==
  ({draggedSphere.id, rendered.draggedSphere.id}
     \cup (IF pending.active THEN {pending.snapshot.draggedSphere.id}
           ELSE {})) \ {Null}

\* ------------------------------------------------------------- colorizer
SelectedColor == <<100, 0, 100>>

HoverColor == <<100, 100, 0>>

\* Mutant of Colorize: the hovered line is painted over the selected one.
ColorizeHoverWins(ld, sel, hov) ==
  [k \in 1..Len(ld.colors) |->
     LET segmentIdx == (k - 1) \div 6
         component == ((k - 1) % 3) + 1
         owner == IF segmentIdx < Len(ld.segmentToLineMap)
                    THEN At(ld.segmentToLineMap, segmentIdx) ELSE Null
     IN IF hov # Null /\ owner = hov THEN ColorF32(HoverColor[component])
        ELSE IF sel # Null /\ owner = sel THEN ColorF32(SelectedColor[component])
        ELSE ld.originalColors[k]]

\* The colour effect: originalColors, then the selected line's segments in
\* magenta, then the hovered line's (when not the selected one) in yellow.
Colorize(ld, sel, hov) ==
  [k \in 1..Len(ld.colors) |->
     LET segmentIdx == (k - 1) \div 6
         component == ((k - 1) % 3) + 1
         owner == IF segmentIdx < Len(ld.segmentToLineMap)
                    THEN At(ld.segmentToLineMap, segmentIdx) ELSE Null
     IN IF hov # Null /\ hov # sel /\ owner = hov THEN ColorF32(HoverColor[component])
        ELSE IF sel # Null /\ owner = sel THEN ColorF32(SelectedColor[component])
        ELSE ld.originalColors[k]]

\* ------------------------------------------------------------------ Init
\* The state once the component is mounted: the first render closed over
\* lineData = null, and the mount effect has called
\* setLineData(initialLineData).
\* No render is waiting for its effects.
NoPending == [active |-> FALSE]

\* No update of a discrete event waits for its render.
NoSync == [fields |-> {}, lineData |-> NullLineData, selectedLineIndex |-> Null]

\* The listeners the effects of DisconnectedLines register.
Listeners ==
  {"mousemove", "mousedown", "mouseup", "click", "contextmenu", "deleteLine"}

\* The component is mounted: the state after the first render and its
\* effects, which registered the listeners (over lineData = null) and
\* called setLineData(initialLineData).
EngineInit ==
  /\ seed \in Seeds
  /\ pending = NoPending
  /\ listeners = Listeners
  /\ sync = NoSync
  /\ lineData = initialLineData
  /\ selectedLineIndex = Null
  /\ hoveredLineIndex = Null
  /\ isDragging = FALSE
  /\ draggedSphere = NoSphere
  /\ lineDataSet = TRUE
  /\ rendered = Snapshot(NullLineData, Null, Null, FALSE, NoSphere)
  /\ lineRef = FALSE
  /\ spheres = <<>>
  /\ orbitEnabled = TRUE
  /\ geometryColors = <<>>
  /\ geometry = 0
  /\ overlay = [hoveredLineIndex |-> Null, selectedLineIndex |-> Null,
                deleted |-> {}]
  /\ last = Event("mount", "none", Null, Null, "done")
  /\ afterDelete = FALSE
  /\ gesture = "none"
  /\ events = 0

\* No execution of rebuildGeometry is traced.
NoRun ==
  [pc |-> "idle", call |-> 0, given |-> <<>>, newLinePoints |-> <<>>,
   lineColors |-> <<>>, totalSegments |-> 0, lineIdx |-> 0,
   positionIndex |-> 0, colorIndex |-> 0, segmentIdx |-> 0,
   newPositions |-> <<>>, newColors |-> <<>>, newOriginalColors |-> <<>>,
   newSegmentToLineMap |-> <<>>, first |-> <<>>, second |-> <<>>]

\* The per-line engine is not mounted.
NoMultiple == [mounted |-> FALSE]

\* No store operation is tried.
NoRefs ==
  [linePoints |-> 0, positions |-> 0, colors |-> 0, originalColors |-> 0,
   segmentToLineMap |-> 0]

NoTrial ==
  [pc |-> "idle", given |-> NullLineData, store |-> NullLineData,
   lineIndex |-> Null, pointIndex |-> Null,
   heap |-> <<>>, refs |-> NoRefs, held |-> NoRefs,
   points |-> <<>>, intersectionPoint |-> <<>>, lower |-> {},
   segmentIndex |-> Null]

Init == EngineInit /\ run = NoRun /\ trial = NoTrial /\ multiple = NoMultiple

\* -------------------------------------------------------------- geometry
\* useMemo(() => { ... new LineSegmentsGeometry() ... }, [lineData]): when
\* lineData changed, a null lineData gives no geometry and any other a newly
\* constructed one; otherwise the memoised geometry is returned.
useMemoGeometry(current, changed, ld) ==
  IF ~changed THEN current
  ELSE IF ld.isNull THEN 0
  ELSE current + 1

\* ---------------------------------------------------------------- Commit
\* The colour effect of render s after render prev (changed: lineData is a
\* new object), run on the colour attribute colors: it paints when one of
\* its dependencies changed and there is a lineData.
ColorEffect(s, prev, changed, colors) ==
  IF /\ ~s.lineData.isNull
     /\ \/ changed
        \/ s.selectedLineIndex # prev.selectedLineIndex
        \/ s.hoveredLineIndex # prev.hoveredLineIndex
    THEN Colorize(s.lineData, s.selectedLineIndex, s.hoveredLineIndex)
    ELSE colors

\* The sphere effect of render s after render prev: when lineData or the
\* selection changed and a line is selected, the spheres are re-created
\* for it.
SphereEffect(s, prev, changed, old) ==
  IF /\ changed \/ s.selectedLineIndex # prev.selectedLineIndex
     /\ s.selectedLineIndex # Null
     /\ ~s.lineData.isNull
    THEN createSpheresForLine(s.lineData, s.selectedLineIndex, old, HeldIds)
    ELSE old

\* The colour attribute after the render phase: a new geometry (lineData
\* changed) is given lineData.colors.
RenderColors(ld, changed, colors) ==
  IF changed /\ ~ld.isNull THEN ld.colors ELSE colors

\* React renders the updates made in mousemove, mousedown, mouseup and
\* deleteLine events and by the mount effect (every update, once those of
\* the discrete events are rendered) and commits: useMemo builds a new
\* geometry when lineData changed and the line object is attached to
\* lineRef.  The passive effects of this render are left pending; until
\* they run the listeners registered by the render before stay in place.
Commit ==
  /\ listeners # {}
  /\ ~pending.active
  /\ sync.fields = {}
  /\ \/ lineDataSet
     \/ rendered # Snapshot(rendered.lineData, selectedLineIndex,
                            hoveredLineIndex, isDragging, draggedSphere)
  /\ pending' = [active |-> TRUE,
                 snapshot |-> Snapshot(lineData, selectedLineIndex,
                                       hoveredLineIndex, isDragging,
                                       draggedSphere),
                 lineDataChanged |-> lineDataSet]
  /\ lineDataSet' = FALSE
  /\ lineRef' = (lineRef \/ ~lineData.isNull)
  /\ geometry' = useMemoGeometry(geometry, lineDataSet, lineData)
  /\ geometryColors' = RenderColors(lineData, lineDataSet, geometryColors)
  /\ gesture' = IF gesture = "up" THEN "none" ELSE gesture
  /\ UNCHANGED <<lineData, selectedLineIndex, hoveredLineIndex, isDragging,
                 draggedSphere, rendered, spheres, orbitEnabled, overlay,
                 last, afterDelete, events, listeners, sync, seed, run, trial,
                 multiple>>

\* React renders the updates made in click and contextmenu events, which
\* have the priority of discrete events: they are rendered before and
\* without the other updates, and the passive effects of the render are
\* flushed in its commit.  What is rendered is the value these updates set;
\* a later update of lineData by another event stays to be rendered.
CommitSync ==
  /\ listeners # {}
  /\ ~pending.active
  /\ sync.fields # {}
  /\ \E changed \in {"lineData" \in sync.fields} :
     \E s \in {[rendered EXCEPT
                  !.lineData = IF changed THEN sync.lineData ELSE @,
                  !.selectedLineIndex =
                     IF "selectedLineIndex" \in sync.fields
                       THEN sync.selectedLineIndex ELSE @]} :
       /\ rendered' = s
       /\ lineDataSet' = IF changed THEN lineData # sync.lineData
                         ELSE lineDataSet
       /\ lineRef' = (lineRef \/ ~s.lineData.isNull)
       /\ geometry' = useMemoGeometry(geometry, changed, s.lineData)
       /\ geometryColors' =
            ColorEffect(s, rendered, changed,
                        RenderColors(s.lineData, changed, geometryColors))
       /\ spheres' = SphereEffect(s, rendered, changed, spheres)
  /\ sync' = NoSync
  /\ gesture' = IF gesture = "up" THEN "none" ELSE gesture
  /\ UNCHANGED <<lineData, selectedLineIndex, hoveredLineIndex, isDragging,
                 draggedSphere, pending, orbitEnabled, overlay, last,
                 afterDelete, events, listeners, seed, run, trial, multiple>>

\* Mutant of Effects: the colour effect paints into lineData.colors instead
\* of a buffer of its own.
EffectsPaintStore ==
  /\ pending.active
  /\ rendered' = pending.snapshot
  /\ pending' = NoPending
  /\ \E s \in {pending.snapshot} :
       /\ \E painted \in {ColorEffect(s, rendered, pending.lineDataChanged,
                                      geometryColors)} :
            /\ geometryColors' = painted
            /\ lineData' = IF lineData.isNull \/ lineData # s.lineData
                             THEN lineData
                             ELSE [lineData EXCEPT !.colors = painted]
       /\ spheres' = SphereEffect(s, rendered, pending.lineDataChanged,
                                  spheres)
  /\ gesture' = IF gesture = "up" THEN "none" ELSE gesture
  /\ UNCHANGED <<selectedLineIndex, hoveredLineIndex, isDragging,
                 draggedSphere, lineDataSet, lineRef, geometry, orbitEnabled,
                 overlay, last, afterDelete, events, listeners, sync, seed,
                 run, trial, multiple>>

\* The passive effects of the pending render run, each when one of its
\* dependencies changed: the listeners are registered again over the
\* values of that render, the colour effect paints the geometry, the
\* sphere effect re-creates the spheres of the selected line.
Effects ==
  /\ pending.active
  /\ rendered' = pending.snapshot
  /\ pending' = NoPending
  /\ \E s \in {pending.snapshot} :
       /\ geometryColors' = ColorEffect(s, rendered, pending.lineDataChanged,
                                        geometryColors)
       /\ spheres' = SphereEffect(s, rendered, pending.lineDataChanged,
                                  spheres)
  /\ gesture' = IF gesture = "up" THEN "none" ELSE gesture
  /\ UNCHANGED <<lineData, selectedLineIndex, hoveredLineIndex, isDragging,
                 draggedSphere, lineDataSet, lineRef, geometry, orbitEnabled,
                 overlay, last, afterDelete, events, listeners, sync, seed,
                 run, trial, multiple>>

\* The parent switches the rendering mode and DisconnectedLines is
\* unmounted: the cleanup of every effect runs, which removes the
\* listeners and calls removeSpheres(), and the ref of the line object is
\* detached.  (React runs pending passive effects before it renders the
\* parent.)
Unmount ==
  /\ listeners # {}
  /\ ~pending.active
  /\ listeners' = {}
  /\ spheres' = removeSpheres
  /\ lineRef' = FALSE
  /\ last' = Event("unmount", "none", Null, Null, "done")
  /\ gesture' = "none"
  /\ UNCHANGED <<lineData, selectedLineIndex, hoveredLineIndex, isDragging,
                 draggedSphere, lineDataSet, rendered, pending,
                 orbitEnabled, geometryColors, geometry, overlay,
                 afterDelete, events, sync, seed, run, trial, multiple>>

\* The parent switches the rendering mode back and a new DisconnectedLines
\* is mounted: its state and refs are those of a first render, with lines
\* generated anew, and its effects registered the listeners and called
\* setLineData(initialLineData).  The parent keeps what it was told.
Mount ==
  /\ listeners = {}
  /\ \E random \in Seeds :
       seed' = random /\ lineData' = initialLineDataOf(random)
  /\ pending' = NoPending
  /\ listeners' = Listeners
  /\ sync' = NoSync
  /\ selectedLineIndex' = Null
  /\ hoveredLineIndex' = Null
  /\ isDragging' = FALSE
  /\ draggedSphere' = NoSphere
  /\ lineDataSet' = TRUE
  /\ rendered' = Snapshot(NullLineData, Null, Null, FALSE, NoSphere)
  /\ lineRef' = FALSE
  /\ spheres' = <<>>
  /\ orbitEnabled' = TRUE
  /\ geometryColors' = <<>>
  /\ geometry' = 0
  /\ last' = Event("mount", "none", Null, Null, "done")
  /\ afterDelete' = FALSE
  /\ gesture' = "none"
  /\ UNCHANGED <<overlay, events, run, trial, multiple>>

\* -------------------------------------------------------------- handlers
\* Every handler is the listener registered by the last committed render:
\* it reads `rendered` and the refs, and sets state.

\* Mutant of Skip: the early return is missing and the handler raises on the
\* value it expected.
SkipRaises(ev) ==
  /\ last' = Event(ev, "none", Null, Null, "threw")
  /\ UNCHANGED <<engineState, rendered, lineRef, spheres, orbitEnabled,
                 geometryColors, overlay>>

\* What a handler leaves alone when it returns early.
Skip(ev) ==
  /\ last' = Event(ev, "none", Null, Null, "skipped")
  /\ UNCHANGED <<engineState, rendered, lineRef, spheres, orbitEnabled,
                 geometryColors, overlay>>

\* contextmenu on the canvas; hit is the sphere of spheresRef.current the ray
\* meets first (1-based), 0 when it meets none.
handleContextMenu(hit) ==
  /\ events < MaxEvents
  /\ events' = events + 1
  /\ IF rendered.selectedLineIndex = Null \/ rendered.isDragging
       THEN Skip("contextmenu")
     ELSE IF hit = 0 THEN Skip("contextmenu")
     ELSE IF spheres[hit].lineIndex # rendered.selectedLineIndex
       THEN Skip("contextmenu")
     ELSE
       LET userData == spheres[hit]
       IN \E r \in {deletePoint(rendered.lineData, userData.lineIndex,
                                 userData.pointIndex)} :
          /\ lineData' = IF r.set THEN r.lineData ELSE lineData
          /\ lineDataSet' = (lineDataSet \/ r.set)
          /\ overlay' = onDebugUpdate(overlay, rendered.hoveredLineIndex,
                                      rendered.selectedLineIndex)
          /\ last' = Event("contextmenu", "deletePoint", userData.lineIndex,
                           userData.pointIndex,
                           IF r.refused THEN "refused" ELSE "done")
          /\ UNCHANGED <<selectedLineIndex, hoveredLineIndex, isDragging,
                         draggedSphere, rendered, lineRef, spheres,
                         orbitEnabled, geometryColors>>

\* mousedown on the canvas with the given button; hit as for contextmenu.
handleMouseDown(button, hit) ==
  /\ events < MaxEvents
  /\ events' = events + 1
  /\ IF rendered.selectedLineIndex = Null \/ button # 0
       THEN Skip("mousedown")
     ELSE IF hit = 0 THEN Skip("mousedown")
     ELSE IF spheres[hit].lineIndex # rendered.selectedLineIndex
       THEN Skip("mousedown")
     ELSE
       LET intersectedSphere == spheres[hit]
       IN /\ isDragging' = TRUE
          /\ draggedSphere' = [id |-> intersectedSphere.id,
                               lineIndex |-> intersectedSphere.lineIndex,
                               pointIndex |-> intersectedSphere.pointIndex]
          /\ orbitEnabled' = FALSE
          /\ last' = Event("mousedown", "startDrag",
                           intersectedSphere.lineIndex,
                           intersectedSphere.pointIndex, "done")
          /\ UNCHANGED <<lineData, selectedLineIndex, hoveredLineIndex,
                         lineDataSet, rendered, lineRef, spheres,
                         geometryColors, overlay>>

\* mousemove on the canvas.  Dragging: planePoint is where the ray meets
\* the drag plane (Undefined when it does not).  Otherwise segmentIndex is
\* the first segment of the rendered line object the ray meets (-1: none).
handleMouseMove(segmentIndex, planePoint) ==
  /\ events < MaxEvents
  /\ events' = events + 1
  /\ IF ~lineRef \/ rendered.lineData.isNull THEN Skip("mousemove")
     ELSE IF rendered.isDragging /\ rendered.draggedSphere # NoSphere
       THEN
         IF planePoint = Undefined THEN Skip("mousemove")
         ELSE
           LET userData == rendered.draggedSphere
           IN \E r \in {updatePointPosition(rendered.lineData,
                           userData.lineIndex, userData.pointIndex, planePoint)} :
              /\ spheres' = [k \in 1..Len(spheres) |->
                               IF spheres[k].id = userData.id
                                 THEN [spheres[k] EXCEPT !.position = planePoint]
                                 ELSE spheres[k]]
              /\ lineData' = IF r.set THEN r.lineData ELSE lineData
              /\ lineDataSet' = (lineDataSet \/ r.set)
              /\ overlay' = IF r.threw THEN overlay
                            ELSE onDebugUpdate(overlay,
                                               rendered.hoveredLineIndex,
                                               rendered.selectedLineIndex)
              /\ last' = Event("mousemove", "updatePointPosition",
                               userData.lineIndex, userData.pointIndex,
                               IF r.threw THEN "threw" ELSE "done")
              /\ UNCHANGED <<selectedLineIndex, hoveredLineIndex, isDragging,
                             draggedSphere, rendered, lineRef, orbitEnabled,
                             geometryColors>>
     ELSE
       /\ planePoint = Undefined
       /\ IF segmentIndex >= Len(rendered.lineData.segmentToLineMap)
            THEN \* a segment the listener's lineData does not have
              /\ last' = Event("mousemove", "hover", Null, Null, "skipped")
              /\ UNCHANGED <<hoveredLineIndex, overlay>>
          ELSE IF segmentIndex >= 0
            THEN
              LET lineIndex == At(rendered.lineData.segmentToLineMap,
                                  segmentIndex)
              IN /\ overlay' = onDebugUpdate(overlay, lineIndex,
                                             rendered.selectedLineIndex)
                 /\ hoveredLineIndex' =
                      IF lineIndex # rendered.hoveredLineIndex
                        THEN lineIndex ELSE hoveredLineIndex
                 /\ last' = Event("mousemove", "hover", lineIndex, Null, "done")
            ELSE
              /\ overlay' = onDebugUpdate(overlay, Null,
                                          rendered.selectedLineIndex)
              /\ hoveredLineIndex' =
                   IF rendered.hoveredLineIndex # Null
                     THEN Null ELSE hoveredLineIndex
              /\ last' = Event("mousemove", "hover", Null, Null, "done")
       /\ UNCHANGED <<lineData, selectedLineIndex, isDragging, draggedSphere,
                      lineDataSet, rendered, lineRef, spheres, orbitEnabled,
                      geometryColors>>

\* Mutant of handleMouseUp: the drag ends but the orbit controls stay off.
handleMouseUpOrbitOff ==
  /\ events < MaxEvents
  /\ events' = events + 1
  /\ IF rendered.isDragging
       THEN /\ isDragging' = FALSE
            /\ draggedSphere' = NoSphere
            /\ last' = Event("mouseup", "endDrag", Null, Null, "done")
            /\ UNCHANGED <<lineData, selectedLineIndex, hoveredLineIndex,
                           lineDataSet, rendered, lineRef, spheres,
                           orbitEnabled, geometryColors, overlay>>
       ELSE Skip("mouseup")

\* mouseup on the window.
handleMouseUp ==
  /\ events < MaxEvents
  /\ events' = events + 1
  /\ IF rendered.isDragging
       THEN /\ isDragging' = FALSE
            /\ draggedSphere' = NoSphere
            /\ orbitEnabled' = TRUE
            /\ last' = Event("mouseup", "endDrag", Null, Null, "done")
            /\ UNCHANGED <<lineData, selectedLineIndex, hoveredLineIndex,
                           lineDataSet, rendered, lineRef, spheres,
                           geometryColors, overlay>>
       ELSE Skip("mouseup")

\* click on the canvas; segmentIndex is the first segment of the rendered
\* line object the ray meets (-1: none), point the intersection point,
\* lower the rounding in findClosestSegment.
handleClick(segmentIndex, point, lower) ==
  /\ events < MaxEvents
  /\ events' = events + 1
  /\ IF ~lineRef \/ rendered.lineData.isNull \/ rendered.isDragging
       THEN Skip("click")
     ELSE IF segmentIndex >= Len(rendered.lineData.segmentToLineMap)
       THEN \* a segment the listener's lineData does not have
         /\ point = CHOOSE q \in PointPool : TRUE
         /\ Skip("click")
     ELSE IF segmentIndex >= 0
       THEN
         LET lineIndex == At(rendered.lineData.segmentToLineMap, segmentIndex)
         IN IF rendered.selectedLineIndex = lineIndex
              THEN
                \E r \in {addPointToLine(rendered.lineData, lineIndex, point,
                                         lower)} :
                LET newSphere == [id |-> FreshIds(HeldIds \cup
                                      {spheres[k].id : k \in 1..Len(spheres)},
                                      1)[1],
                                  lineIndex |-> lineIndex,
                                  pointIndex |-> r.insertIndex,
                                  position |-> point,
                                  isNewPoint |-> TRUE]
                IN \* the model offers no add-point beyond MaxPoints
                   /\ Len(At(rendered.lineData.linePoints, lineIndex)) < MaxPoints
                   /\ lineData' = r.lineData
                   /\ lineDataSet' = TRUE
                   /\ spheres' = Append(spheres, newSphere)
                   /\ overlay' = onDebugUpdate(overlay,
                                               rendered.hoveredLineIndex,
                                               lineIndex)
                   /\ last' = Event("click", "addPointToLine", lineIndex,
                                    r.insertIndex, "done")
                   /\ UNCHANGED <<selectedLineIndex, hoveredLineIndex,
                                  isDragging, draggedSphere, rendered, lineRef,
                                  orbitEnabled, geometryColors>>
              ELSE
                /\ point = CHOOSE q \in PointPool : TRUE
                /\ selectedLineIndex' = lineIndex
                /\ spheres' = createSpheresForLine(rendered.lineData, lineIndex,
                                                   spheres, HeldIds)
                /\ overlay' = onDebugUpdate(overlay, rendered.hoveredLineIndex,
                                            lineIndex)
                /\ last' = Event("click", "select", lineIndex, Null, "done")
                /\ UNCHANGED <<lineData, hoveredLineIndex, isDragging,
                               draggedSphere, lineDataSet, rendered, lineRef,
                               orbitEnabled, geometryColors>>
     ELSE
       /\ point = CHOOSE q \in PointPool : TRUE
       /\ selectedLineIndex' = Null
       /\ spheres' = removeSpheres
       /\ overlay' = onDebugUpdate(overlay, rendered.hoveredLineIndex, Null)
       /\ last' = Event("click", "deselect", Null, Null, "done")
       /\ UNCHANGED <<lineData, hoveredLineIndex, isDragging, draggedSphere,
                      lineDataSet, rendered, lineRef, orbitEnabled,
                      geometryColors>>

\* "deleteLine" custom event on the window, carrying detail.lineIndex.
handleDeleteLineEvent(lineIndex) ==
  /\ events < MaxEvents
  /\ events' = events + 1
  /\ IF lineIndex = rendered.selectedLineIndex
       THEN
         \E r \in {deleteLine(rendered.lineData, lineIndex)} :
            /\ lineData' = IF r.set THEN r.lineData ELSE lineData
            /\ lineDataSet' = (lineDataSet \/ r.set)
            /\ selectedLineIndex' = Null
            /\ spheres' = IF r.set THEN removeSpheres ELSE spheres
            /\ overlay' = onLineDeleted(
                            onDebugUpdate(overlay, rendered.hoveredLineIndex,
                                          Null),
                            lineIndex)
            /\ last' = Event("deleteLine", "deleteLine", lineIndex, Null,
                             "done")
            /\ UNCHANGED <<hoveredLineIndex, isDragging, draggedSphere,
                           rendered, lineRef, orbitEnabled, geometryColors>>
       ELSE
         /\ last' = Event("deleteLine", "none", lineIndex, Null, "ignored")
         /\ UNCHANGED <<engineState, rendered, lineRef, spheres, orbitEnabled,
                        geometryColors, overlay>>

\* ------------------------------------------------------------------ Next
\* The lineData of the line object on screen (lineRef.current): the one of
\* the last render, which the listeners only see once its effects have run.
Displayed ==
  IF pending.active THEN pending.snapshot.lineData ELSE rendered.lineData

\* What a ray can meet first: a segment of the line object on screen, or
\* nothing (-1).
SegmentHits == -1..(Len(Displayed.segmentToLineMap) - 1)

SphereHits == 0..Len(spheres)

\* What every listener does besides its handler: the history kept for the
\* temporal claims (afterDelete, gesture), and the updates a click or a contextmenu
\* event made (setSelectedLineIndex, setLineData), kept in sync with the
\* value set.  No listener renders: the geometry is the one of the last
\* render.
Track ==
  /\ afterDelete' = IF last'.op = "deleteLine" THEN TRUE
                    ELSE IF last'.op = "select" THEN FALSE
                    ELSE afterDelete
  /\ gesture' = IF last'.ev = "mousedown" /\ last'.op = "startDrag"
                  THEN "down"
                ELSE IF last'.ev = "mousemove" /\ gesture = "down" THEN "down"
                ELSE IF last'.ev = "mouseup" /\ gesture = "down" THEN "up"
                ELSE "none"
  /\ sync' = IF last'.ev = "click" /\ last'.op \in {"select", "deselect"}
               THEN [sync EXCEPT !.fields = @ \cup {"selectedLineIndex"},
                                 !.selectedLineIndex = selectedLineIndex']
             ELSE IF \/ last'.ev = "click" /\ last'.op = "addPointToLine"
                     \/ /\ last'.ev = "contextmenu"
                        /\ last'.op = "deletePoint"
                        /\ last'.outcome = "done"
               THEN [sync EXCEPT !.fields = @ \cup {"lineData"},
                                 !.lineData = lineData']
             ELSE sync
  /\ UNCHANGED <<geometry, pending, listeners, seed, run, trial, multiple>>

\* An event is delivered to a registered listener.
Registered(ev) == ev \in listeners

ContextMenu ==
  /\ Registered("contextmenu")
  /\ \E hit \in SphereHits : handleContextMenu(hit) /\ Track

MouseDown ==
  /\ Registered("mousedown")
  /\ \E button \in {0, 2}, hit \in SphereHits :
       handleMouseDown(button, hit) /\ Track

MouseMove ==
  /\ Registered("mousemove")
  /\ \E segmentIndex \in SegmentHits,
        planePoint \in PointPool \cup {Undefined} :
       handleMouseMove(segmentIndex, planePoint) /\ Track

MouseUp == Registered("mouseup") /\ handleMouseUp /\ Track

\* The rounding outcomes that matter for a click on segmentIndex: those of
\* the line the segment belongs to.
ClickRounding(segmentIndex, point) ==
  IF /\ segmentIndex >= 0
     /\ ~rendered.lineData.isNull
     /\ segmentIndex < Len(rendered.lineData.segmentToLineMap)
    THEN Rounding(At(rendered.lineData.linePoints,
                     At(rendered.lineData.segmentToLineMap, segmentIndex)),
                  point)
    ELSE {{}}

Click ==
  /\ Registered("click")
  /\ \E segmentIndex \in SegmentHits, point \in PointPool :
       \E lower \in ClickRounding(segmentIndex, point) :
         handleClick(segmentIndex, point, lower) /\ Track

DeleteLineEvent ==
  /\ Registered("deleteLine")
  /\ \E lineIndex \in 0..numLines : handleDeleteLineEvent(lineIndex) /\ Track

Next ==
  \/ Commit
  \/ CommitSync
  \/ Effects
  \/ Unmount
  \/ Mount
  \/ ContextMenu
  \/ MouseDown
  \/ MouseMove
  \/ MouseUp
  \/ Click
  \/ DeleteLineEvent

Spec == Init /\ [][Next]_vars

\* ------------------------------------------- rebuildGeometry, step by step
\* One call of rebuildGeometry as the statements execute it, on argument
\* objects held in run.newLinePoints and run.lineColors (run.given keeps
\* the values they had when passed), made twice in a row on the same
\* arguments.

\* typedArray[index] = value, value being given as the Float32 it is stored
\* as: dropped past the end.
WriteF32(buffer, index, value) ==
  IF index >= 0 /\ index < Len(buffer)
    THEN [buffer EXCEPT ![index + 1] = value]
    ELSE buffer

\* Consecutive element writes from index on.
RECURSIVE WriteAll(_, _, _)
WriteAll(buffer, index, values) ==
  IF values = <<>> THEN buffer
  ELSE WriteAll(WriteF32(buffer, index, Head(values)), index + 1, Tail(values))

\* The body of the inner loop for segment i of the line at r.lineIdx.
EmitSegment(r, points, color, i) ==
  LET point1 == At(points, i)
      point2 == At(points, i + 1)
  IN [r EXCEPT
        !.newSegmentToLineMap = AssignAt(@, r.segmentIdx, r.lineIdx),
        !.newPositions = WriteAll(@, r.positionIndex,
                                  [c \in 1..6 |-> F32((point1 \o point2)[c])]),
        !.newColors = WriteAll(@, r.colorIndex, ColorFloats(color)),
        !.newOriginalColors = WriteAll(@, r.colorIndex, ColorFloats(color)),
        !.positionIndex = @ + 6,
        !.colorIndex = @ + 6,
        !.segmentIdx = @ + 1]

\* for (let i = 0; i < segmentsInLine; i++) { ... }
RECURSIVE EmitLoop(_, _, _, _, _)
EmitLoop(r, points, color, i, segmentsInLine) ==
  IF i < segmentsInLine
    THEN EmitLoop(EmitSegment(r, points, color, i), points, color, i + 1,
                  segmentsInLine)
    ELSE r

\* The arguments the traced calls are made on: every line is a run of 0 to
\* MaxPoints points.
RebuildInputs ==
  {[l \in 1..numLines |-> [k \in 1..shape[l] |-> InitPoint(l - 1, k - 1)]] :
     shape \in [1..numLines -> 0..MaxPoints]}

StartRun(linePoints, lineColors) ==
  [NoRun EXCEPT !.pc = "call", !.call = 1,
                !.given = [linePoints |-> linePoints, lineColors |-> lineColors],
                !.newLinePoints = linePoints, !.lineColors = lineColors]

InitRebuild ==
  /\ multiple = NoMultiple
  /\ EngineInit
  /\ trial = NoTrial
  /\ run \in {StartRun(linePoints, [l \in 1..numLines |-> InitColor(l - 1)]) :
                linePoints \in RebuildInputs}

\* Mutant of RebuildEnter: the write indices are not declared in the
\* function but kept from the call before.
RebuildEnterKeepsIndices ==
  /\ run.pc = "call"
  /\ LET totalSegments == SumSeq([i \in 1..Len(run.newLinePoints) |->
                                   CountedSegments(run.newLinePoints[i])])
         totalPoints == totalSegments * 2
         zeros == [k \in 1..(totalPoints * 3) |-> ZeroF32]
     IN run' = [run EXCEPT !.pc = "loop",
                           !.totalSegments = totalSegments,
                           !.newPositions = zeros,
                           !.newColors = zeros,
                           !.newOriginalColors = zeros,
                           !.newSegmentToLineMap = <<>>,
                           !.lineIdx = 0]
  /\ UNCHANGED <<engineVars, trial, multiple>>

\* Entry of rebuildGeometry up to the second loop: the first loop counts
\* the segments, the buffers are allocated zero-filled, the indices start
\* at 0.
RebuildEnter ==
  /\ run.pc = "call"
  /\ LET totalSegments == SumSeq([i \in 1..Len(run.newLinePoints) |->
                                   CountedSegments(run.newLinePoints[i])])
         totalPoints == totalSegments * 2
         zeros == [k \in 1..(totalPoints * 3) |-> ZeroF32]
     IN run' = [run EXCEPT !.pc = "loop",
                           !.totalSegments = totalSegments,
                           !.newPositions = zeros,
                           !.newColors = zeros,
                           !.newOriginalColors = zeros,
                           !.newSegmentToLineMap = <<>>,
                           !.positionIndex = 0,
                           !.colorIndex = 0,
                           !.segmentIdx = 0,
                           !.lineIdx = 0]
  /\ UNCHANGED <<engineVars, trial, multiple>>

\* One iteration of the second loop: the line at lineIdx is skipped or its
\* segments are written.
RebuildLine ==
  /\ run.pc = "loop"
  /\ run.lineIdx < Len(run.newLinePoints)
  /\ LET points == At(run.newLinePoints, run.lineIdx)
         color == At(run.lineColors, run.lineIdx)
         next == [run EXCEPT !.lineIdx = @ + 1]
     IN run' = IF ~Emitted(points) THEN next
               ELSE [EmitLoop(run, points, color, 0, SegmentsInLine(points))
                       EXCEPT !.lineIdx = @ + 1]
  /\ UNCHANGED <<engineVars, trial, multiple>>

\* return { positions, colors, originalColors, segmentToLineMap }; the
\* first call is followed by a second on the same arguments.
RebuildReturn ==
  /\ run.pc = "loop"
  /\ run.lineIdx = Len(run.newLinePoints)
  /\ LET result == [positions |-> run.newPositions,
                    colors |-> run.newColors,
                    originalColors |-> run.newOriginalColors,
                    segmentToLineMap |-> run.newSegmentToLineMap]
     IN run' = IF run.call = 1
                 THEN [run EXCEPT !.first = result, !.call = 2, !.pc = "call"]
                 ELSE [run EXCEPT !.second = result, !.pc = "done"]
  /\ UNCHANGED <<engineVars, trial, multiple>>

NextRebuild ==
  \/ RebuildEnter
  \/ RebuildLine
  \/ RebuildReturn

SpecRebuild == InitRebuild /\ [][NextRebuild]_vars

\* ------------------------------------------------- store operations alone
\* The store operations applied to stores of every shape: each line is a
\* run of 0 to MaxPoints consecutive points of its row, starting at the
\* first or the second point of the row.
StoreInputs ==
  {NewLineData(rebuildGeometry(linePoints, lineColors), lineColors,
               pointsPerLine - 1, linePoints) :
     linePoints \in
       {[l \in 1..numLines |->
           [k \in 1..shape[l] |-> InitPoint(l - 1, k - 1 + start[l])]] :
          shape \in [1..numLines -> 0..MaxPoints],
          start \in [1..numLines -> 0..1]},
     lineColors \in {[l \in 1..numLines |-> InitColor(l - 1)]}}

\* The arrays of a store as objects: heap[a] is the content of the array
\* at address a.  The point array of line l is at address l + 1, and the
\* outer linePoints array holds the addresses of the point arrays.
HeapOf(ld) ==
  LET n == Len(ld.linePoints)
  IN [l \in 1..n |-> ld.linePoints[l]]
     \o <<[l \in 1..n |-> l], ld.positions, ld.colors, ld.originalColors,
          ld.segmentToLineMap>>

\* Where the fields of the lineData object of HeapOf point.
RefsOf(ld) ==
  LET n == Len(ld.linePoints)
  IN [linePoints |-> n + 1, positions |-> n + 2, colors |-> n + 3,
      originalColors |-> n + 4, segmentToLineMap |-> n + 5]

\* Mutant of CopyOnWrite: the edit is made in the point array and the outer
\* array of the lineData it was given.
WriteInPlace(heap, refs, lineIndex, newPoints, geometryData) ==
  LET h1 == [heap EXCEPT ![heap[refs.linePoints][lineIndex + 1]] = newPoints]
      h2 == h1 \o <<geometryData.positions, geometryData.colors,
                    geometryData.originalColors,
                    geometryData.segmentToLineMap>>
  IN [heap |-> h2,
      refs |-> [linePoints |-> refs.linePoints,
                positions |-> Len(h1) + 1, colors |-> Len(h1) + 2,
                originalColors |-> Len(h1) + 3,
                segmentToLineMap |-> Len(h1) + 4]]

\* What the four mutations do to the arrays: newLinePoints is a spread
\* copy of lineData.linePoints, the edited line is a new array (a spread
\* copy that was spliced or assigned to, or []) put at lineIndex of
\* newLinePoints, and rebuildGeometry returns arrays it allocated.
CopyOnWrite(heap, refs, lineIndex, newPoints, geometryData) ==
  LET h1 == Append(heap, heap[refs.linePoints])
      newLinePoints == Len(h1)
      h2 == Append(h1, newPoints)
      h3 == [h2 EXCEPT ![newLinePoints][lineIndex + 1] = Len(h2)]
      h4 == h3 \o <<geometryData.positions, geometryData.colors,
                    geometryData.originalColors,
                    geometryData.segmentToLineMap>>
  IN [heap |-> h4,
      refs |-> [linePoints |-> newLinePoints,
                positions |-> Len(h3) + 1, colors |-> Len(h3) + 2,
                originalColors |-> Len(h3) + 3,
                segmentToLineMap |-> Len(h3) + 4]]

\* The trial after a store operation returned r for line lineIndex.
Applied(t, pc, r, lineIndex, pointIndex) ==
  IF ~r.set THEN [t EXCEPT !.pc = pc, !.lineIndex = lineIndex,
                           !.pointIndex = pointIndex]
  ELSE
    LET m == CopyOnWrite(t.heap, t.refs, lineIndex,
                         At(r.lineData.linePoints, lineIndex), r.lineData)
    IN [t EXCEPT !.pc = pc, !.store = r.lineData, !.lineIndex = lineIndex,
                 !.pointIndex = pointIndex, !.heap = m.heap, !.refs = m.refs]

\* Point sequences for findClosestSegment: segments of zero length, a
\* segment walked back, points at equal distance of two segments, and
\* (with the origin displaced either way) segments whose distances differ
\* by less than the double arithmetic resolves.
ClosestPool == {<<0, 0, 0>>, <<6, 0, 0>>, <<3, 4, 0>>}

NearTiePool == {<<0, 0, 0, -1>>, <<0, 0, 0, 1>>}

ClosestInputs ==
  UNION {[1..n -> ClosestPool \cup NearTiePool] : n \in 2..MaxPoints}

InitStore ==
  /\ multiple = NoMultiple
  /\ EngineInit
  /\ run = NoRun
  /\ trial \in {[NoTrial EXCEPT !.pc = "given", !.given = st, !.store = st,
                                !.heap = HeapOf(st), !.refs = RefsOf(st),
                                !.held = RefsOf(st)] :
                  st \in StoreInputs}

\* addPointToLine(lineIndex, intersectionPoint) on a line that has a
\* segment to click.
TrialAdd ==
  /\ trial.pc = "given"
  /\ \E lineIndex \in 0..(numLines - 1), point \in PointPool :
       /\ Len(At(trial.store.linePoints, lineIndex)) >= 2
       /\ \E lower \in Rounding(At(trial.store.linePoints, lineIndex), point) :
            \E r \in {addPointToLine(trial.store, lineIndex, point, lower)} :
              trial' = [Applied(trial, "added", r, lineIndex, r.insertIndex)
                          EXCEPT !.intersectionPoint = point,
                                 !.lower = lower]
  /\ UNCHANGED <<engineVars, run, multiple>>

\* deletePoint(lineIndex, pointIndex) of the point just added.
TrialDelete ==
  /\ trial.pc = "added"
  /\ \E r \in {deletePoint(trial.store, trial.lineIndex, trial.pointIndex)} :
       trial' = Applied(trial, IF r.set THEN "deleted" ELSE "refused", r,
                        trial.lineIndex, trial.pointIndex)
  /\ UNCHANGED <<engineVars, run, multiple>>

\* updatePointPosition(lineIndex, pointIndex, newPosition) of a point the
\* line has.
TrialMove ==
  /\ trial.pc = "given"
  /\ \E lineIndex \in 0..(numLines - 1), newPosition \in PointPool :
       \E pointIndex \in 0..(Len(At(trial.store.linePoints, lineIndex)) - 1) :
         \E r \in {updatePointPosition(trial.store, lineIndex, pointIndex,
                                        newPosition)} :
           trial' = Applied(trial, "moved", r, lineIndex, pointIndex)
  /\ UNCHANGED <<engineVars, run, multiple>>

\* deletePoint(lineIndex, pointIndex) of a point the line has.
TrialDeletePoint ==
  /\ trial.pc = "given"
  /\ \E lineIndex \in 0..(numLines - 1) :
       \E pointIndex \in 0..(Len(At(trial.store.linePoints, lineIndex)) - 1) :
         \E r \in {deletePoint(trial.store, lineIndex, pointIndex)} :
           trial' = Applied(trial, IF r.set THEN "pointDeleted" ELSE "pointKept",
                            r, lineIndex, pointIndex)
  /\ UNCHANGED <<engineVars, run, multiple>>

\* deleteLine(lineIndex)
TrialDeleteLine ==
  /\ trial.pc = "given"
  /\ \E lineIndex \in 0..(numLines - 1) :
       \E r \in {deleteLine(trial.store, lineIndex)} :
         trial' = Applied(trial, "lineDeleted", r, lineIndex, Null)
  /\ UNCHANGED <<engineVars, run, multiple>>

\* findClosestSegment(0, intersectionPoint) on a store whose line 0 is
\* points.
TrialClosest ==
  /\ trial.pc = "given"
  /\ trial.given = CHOOSE st \in StoreInputs : TRUE
  /\ \E points \in ClosestInputs, intersectionPoint \in ClosestPool \cup PointPool :
       /\ Absorbed(points, intersectionPoint)
       /\ \E lower \in Rounding(points, intersectionPoint) :
         trial' = [trial EXCEPT
                     !.pc = "closest",
                     !.points = points,
                     !.intersectionPoint = intersectionPoint,
                     !.lower = lower,
                     !.segmentIndex =
                       findClosestSegment(
                         [trial.given EXCEPT
                            !.linePoints = AssignAt(@, 0, points)],
                         0, intersectionPoint, lower)]
  /\ UNCHANGED <<engineVars, run, multiple>>

NextStore ==
  \/ TrialAdd
  \/ TrialDelete
  \/ TrialMove
  \/ TrialDeletePoint
  \/ TrialDeleteLine
  \/ TrialClosest

SpecStore == InitStore /\ [][NextStore]_vars

\* -------------------------------------------- the per-line engine alone
\* DisconnectedLinesMultiple: one line object per line.  A line object is
\* named by the userData.lineIndex it was created with; `lines` is the
\* state array of line objects and points[id + 1] the points array of
\* object id, which the handlers edit in place.  Three effects register
\* listeners: the mousemove effect (closure `move`), the effect of
\* mousedown, mouseup, click and contextmenu (closure `main`), and the
\* deleteLine effect, whose dependencies are all it reads (closure
\* `rendered`, the last render whose effects ran).  As in the batched
\* engine, the updates of click and contextmenu events are rendered alone
\* and at once (`sync`), the others later, and the effects of such a later
\* render run after its commit (`pending`).

\* What a render closes over.
MultipleSnapshot(lines, sel, hov, drag, sphere) ==
  [lines |-> lines, selectedLineIndex |-> sel, hoveredLineIndex |-> hov,
   isDragging |-> drag, draggedSphere |-> sphere]

MultipleListeners ==
  {"mousemove", "mousedown", "mouseup", "click", "contextmenu", "deleteLine"}

\* No update of a click or a contextmenu event waits for its render.
MultipleNoSync == [fields |-> {}, lines |-> <<>>, selectedLineIndex |-> Null]

\* The state once the component is mounted with the outcomes random of
\* Math.random(): the first render closed over lines = [], and the mount
\* effect has called setLines(newLines).  linesSet: setLines was called in
\* an event whose update is rendered later, and no click or contextmenu
\* event has set lines since.
MultipleMounted(random) ==
  [mounted |-> TRUE,
   lines |-> [k \in 1..numLines |-> k - 1],
   points |-> [k \in 1..numLines |->
                 [p \in 1..pointsPerLine |->
                    InitPointOf(random, k - 1, p - 1)]],
   linesSet |-> TRUE,
   pending |-> NoPending,
   sync |-> MultipleNoSync,
   selectedLineIndex |-> Null,
   hoveredLineIndex |-> Null,
   isDragging |-> FALSE,
   draggedSphere |-> NoSphere,
   spheres |-> <<>>,
   orbitEnabled |-> TRUE,
   rendered |-> MultipleSnapshot(<<>>, Null, Null, FALSE, NoSphere),
   move |-> MultipleSnapshot(<<>>, Null, Null, FALSE, NoSphere),
   main |-> MultipleSnapshot(<<>>, Null, Null, FALSE, NoSphere),
   listeners |-> MultipleListeners,
   overlay |-> [hoveredLineIndex |-> Null, selectedLineIndex |-> Null,
                deleted |-> {}],
   last |-> Event("mount", "none", Null, Null, "done"),
   events |-> 0]

MultipleInit == MultipleMounted(seed)

\* lines[lineIndex] of an array of line objects: Null stands for undefined.
LineAt(lines, lineIndex) ==
  IF lineIndex >= 0 /\ lineIndex < Len(lines) THEN lines[lineIndex + 1]
  ELSE Null

\* createSpheresForLine(lineIndex) of the render that closed over lines:
\* the old spheres are removed, and the line object found at lineIndex gets
\* one sphere per point it has now (forEach skips the holes of the array),
\* each a new mesh (used: the ids of the meshes still referred to).
MultipleCreateSpheres(lines, points, lineIndex, used) ==
  LET lineObject == LineAt(lines, lineIndex)
  IN IF lineObject = Null THEN <<>>
     ELSE
       LET array == points[lineObject + 1]
           visited == {k \in 1..Len(array) : array[k] # Undefined}
           nth(j) == CHOOSE k \in visited :
                       Cardinality({m \in visited : m < k}) = j - 1
           ids == FreshIds(used, Cardinality(visited))
       IN [j \in 1..Cardinality(visited) |->
             [id |-> ids[j], lineIndex |-> lineIndex,
              pointIndex |-> nth(j) - 1]]

\* Ids of meshes still referred to as the dragged sphere: by the state, by
\* a registered listener, or by the render waiting for its effects.
MultipleHeldIds(m) ==
  ({m.draggedSphere.id, m.rendered.draggedSphere.id, m.move.draggedSphere.id,
    m.main.draggedSphere.id}
     \cup (IF m.pending.active THEN {m.pending.snapshot.draggedSphere.id}
           ELSE {})) \ {Null}

\* setSelectedLineIndex in a click event: rendered before the other
\* updates.
MultipleSyncSelection(m, sel) ==
  [m.sync EXCEPT !.fields = @ \cup {"selectedLineIndex"},
                 !.selectedLineIndex = sel]

\* setLines in a click or a contextmenu event: rendered before the other
\* updates.
MultipleSyncLines(m, lines) ==
  [m.sync EXCEPT !.fields = @ \cup {"lines"}, !.lines = lines]

\* A handled event: the event counter and what was done.
MultipleDone(m, ev, op, lineIndex, pointIndex, outcome) ==
  [m EXCEPT !.events = @ + 1,
            !.last = Event(ev, op, lineIndex, pointIndex, outcome)]

\* mousemove.  Dragging: planePoint is where the ray meets the drag plane
\* (Undefined when it does not).  Otherwise hit is the position in the
\* closure's lines of the line object the ray meets first (0: none).
MultipleMouseMove(m, hit, planePoint) ==
  LET c == m.move
  IN IF c.isDragging /\ c.draggedSphere # NoSphere
       THEN
         IF planePoint = Undefined
           THEN MultipleDone(m, "mousemove", "none", Null, Null, "skipped")
         ELSE
           LET lineIndex == c.draggedSphere.lineIndex
               pointIndex == c.draggedSphere.pointIndex
               lineObject == LineAt(c.lines, lineIndex)
           IN IF lineObject = Null
                THEN MultipleDone(m, "mousemove", "updatePointPosition",
                                  lineIndex, pointIndex, "threw")
                ELSE [MultipleDone(m, "mousemove", "updatePointPosition",
                                   lineIndex, pointIndex, "done")
                        EXCEPT !.points[lineObject + 1] =
                                 AssignAt(@, pointIndex, planePoint),
                               !.lines = c.lines,
                               !.linesSet = TRUE]
     ELSE IF hit > 0
       THEN
         LET lineIndex == c.lines[hit]
         IN [MultipleDone(m, "mousemove", "hover", lineIndex, Null, "done")
               EXCEPT !.overlay = onDebugUpdate(@, lineIndex,
                                                c.selectedLineIndex),
                      !.hoveredLineIndex =
                        IF c.hoveredLineIndex # lineIndex THEN lineIndex ELSE @]
     ELSE [MultipleDone(m, "mousemove", "hover", Null, Null, "done")
             EXCEPT !.overlay = onDebugUpdate(@, Null, c.selectedLineIndex),
                    !.hoveredLineIndex =
                      IF c.hoveredLineIndex # Null THEN Null ELSE @]

\* mousedown with the given button; hit is the sphere of spheresRef.current
\* the ray meets first (1-based), 0 when it meets none.
MultipleMouseDown(m, button, hit) ==
  LET c == m.main
  IN IF c.selectedLineIndex = Null \/ button # 0 \/ hit = 0
       THEN MultipleDone(m, "mousedown", "none", Null, Null, "skipped")
     ELSE
       LET intersectedSphere == m.spheres[hit]
       IN [MultipleDone(m, "mousedown", "startDrag",
                        intersectedSphere.lineIndex,
                        intersectedSphere.pointIndex, "done")
             EXCEPT !.isDragging = TRUE,
                    !.draggedSphere = intersectedSphere,
                    !.orbitEnabled = FALSE]

\* mouseup on the window.
MultipleMouseUp(m) ==
  IF m.main.isDragging
    THEN [MultipleDone(m, "mouseup", "endDrag", Null, Null, "done")
            EXCEPT !.isDragging = FALSE,
                   !.draggedSphere = NoSphere,
                   !.orbitEnabled = TRUE]
    ELSE MultipleDone(m, "mouseup", "none", Null, Null, "skipped")

\* Mutant of MultipleClosestLoop: the scan is left out and the segment kept
\* at the start is returned.
MultipleClosestLoopNoScan(newPoints, intersectionPoint, i, closestSegmentIndex, minDistance, lower) ==
  closestSegmentIndex

\* The closest-segment loop of the per-line handleClick from segment i of
\* newPoints on: closestSegmentIndex is the index kept so far and
\* minDistance its distance (<<0, 0>> stands for +Infinity).  A segment
\* whose lineLength is 0 is passed over; another replaces the one kept when
\* distance < minDistance on the doubles: the exact distance is smaller,
\* or it is the same and the rounding puts this one lower.
RECURSIVE MultipleClosestLoop(_, _, _, _, _, _)
MultipleClosestLoop(newPoints, intersectionPoint, i, closestSegmentIndex, minDistance, lower) ==
  IF i >= Len(newPoints) - 1 THEN closestSegmentIndex
  ELSE IF newPoints[i + 1] = newPoints[i + 2]
    THEN MultipleClosestLoop(newPoints, intersectionPoint, i + 1,
                             closestSegmentIndex, minDistance, lower)
  ELSE
    LET distance == SegmentDistance2(newPoints[i + 1], newPoints[i + 2],
                                     intersectionPoint)
        replaces ==
          IF minDistance = <<0, 0>> THEN TRUE
          ELSE IF FracEq(distance, minDistance)
            THEN RoundingRank(newPoints, intersectionPoint, i, lower) <
                   RoundingRank(newPoints, intersectionPoint,
                                closestSegmentIndex, lower)
          ELSE FracLess(distance, minDistance)
    IN IF replaces
         THEN MultipleClosestLoop(newPoints, intersectionPoint, i + 1, i,
                                  distance, lower)
         ELSE MultipleClosestLoop(newPoints, intersectionPoint, i + 1,
                                  closestSegmentIndex, minDistance, lower)

\* The add-point branch of handleClick on a points array: the loop reads
\* every entry of an array of 2 entries or more and raises a TypeError on a
\* hole (fromArray(undefined)); otherwise the point is spliced in after the
\* closest segment.
MultipleAddPoint(points, intersectionPoint, lower) ==
  IF Len(points) >= 2 /\ \E k \in 1..Len(points) : points[k] = Undefined
    THEN [threw |-> TRUE, points |-> points]
    ELSE [threw |-> FALSE,
          points |-> SpliceInsert(points,
                                  MultipleClosestLoop(points, intersectionPoint,
                                                      0, 0, <<0, 0>>, lower)
                                    + 1,
                                  intersectionPoint)]

\* click; hit as for mousemove, point the intersection point, lower the
\* rounding in the closest-segment loop.
MultipleClick(m, hit, point, lower) ==
  LET c == m.main
  IN IF c.isDragging
       THEN MultipleDone(m, "click", "none", Null, Null, "skipped")
     ELSE IF hit > 0
       THEN
         LET lineIndex == c.lines[hit]
             lineObject == LineAt(c.lines, lineIndex)
         IN IF c.selectedLineIndex = lineIndex
              THEN
                IF lineObject = Null
                  THEN MultipleDone(m, "click", "addPointToLine", lineIndex,
                                    Null, "threw")
                ELSE
                  LET added == MultipleAddPoint(m.points[lineObject + 1],
                                                point, lower)
                      after == [m.points EXCEPT ![lineObject + 1] =
                                  added.points]
                  IN IF added.threw
                       THEN MultipleDone(m, "click", "addPointToLine",
                                         lineIndex, Null, "threw")
                     ELSE
                       [MultipleDone(m, "click", "addPointToLine", lineIndex,
                                     Null, "done")
                          EXCEPT !.points = after,
                                 !.lines = c.lines,
                                 !.linesSet = FALSE,
                                 !.sync = MultipleSyncLines(m, c.lines),
                                 !.spheres =
                                   MultipleCreateSpheres(c.lines, after,
                                                         lineIndex,
                                                         MultipleHeldIds(m)),
                                 !.overlay =
                                   onDebugUpdate(@, c.hoveredLineIndex,
                                                 lineIndex)]
            ELSE
              [MultipleDone(m, "click", "select", lineIndex, Null,
                            IF lineObject = Null THEN "threw" ELSE "done")
                 EXCEPT !.selectedLineIndex = lineIndex,
                        !.sync = MultipleSyncSelection(m, lineIndex),
                        !.spheres = MultipleCreateSpheres(c.lines, m.points,
                                                          lineIndex,
                                                          MultipleHeldIds(m)),
                        !.overlay = IF lineObject = Null THEN @
                                    ELSE onDebugUpdate(@, c.hoveredLineIndex,
                                                       lineIndex)]
     ELSE [MultipleDone(m, "click", "deselect", Null, Null, "done")
             EXCEPT !.selectedLineIndex = Null,
                    !.sync = MultipleSyncSelection(m, Null),
                    !.spheres = <<>>,
                    !.overlay = onDebugUpdate(@, c.hoveredLineIndex, Null)]

\* The point sequence after handleContextMenu's splice, and whether the
\* handler refuses (2 points or fewer).
MultipleDeletePoint(points, pointIndex) ==
  IF Len(points) > 2 THEN SpliceRemove(points, pointIndex) ELSE points

\* contextmenu; hit as for mousedown.
MultipleContextMenu(m, hit) ==
  LET c == m.main
  IN IF c.selectedLineIndex = Null \/ hit = 0
       THEN MultipleDone(m, "contextmenu", "none", Null, Null, "skipped")
     ELSE
       LET lineIndex == m.spheres[hit].lineIndex
           pointIndex == m.spheres[hit].pointIndex
           lineObject == LineAt(c.lines, lineIndex)
       IN IF lineIndex # c.selectedLineIndex
            THEN MultipleDone(m, "contextmenu", "none", Null, Null, "skipped")
          ELSE IF lineObject = Null
            THEN MultipleDone(m, "contextmenu", "deletePoint", lineIndex,
                              pointIndex, "threw")
          ELSE IF ~(Len(m.points[lineObject + 1]) > 2)
            THEN MultipleDone(m, "contextmenu", "deletePoint", lineIndex,
                              pointIndex, "refused")
          ELSE
            LET after == [m.points EXCEPT ![lineObject + 1] =
                            MultipleDeletePoint(@, pointIndex)]
            IN [MultipleDone(m, "contextmenu", "deletePoint", lineIndex,
                             pointIndex, "done")
                  EXCEPT !.points = after,
                         !.lines = c.lines,
                         !.linesSet = FALSE,
                         !.sync = MultipleSyncLines(m, c.lines),
                         !.spheres = MultipleCreateSpheres(c.lines, after,
                                                           lineIndex,
                                                           MultipleHeldIds(m)),
                         !.overlay = onDebugUpdate(@, c.hoveredLineIndex,
                                                   c.selectedLineIndex)]

\* "deleteLine" custom event on the window, carrying detail.lineIndex: the
\* line object at lineIndex is spliced out of the array.
MultipleDeleteLineEvent(m, lineIndex) ==
  LET c == m.rendered
      lineObject == LineAt(c.lines, lineIndex)
  IN IF lineIndex # c.selectedLineIndex
       THEN MultipleDone(m, "deleteLine", "none", lineIndex, Null, "ignored")
     ELSE IF lineObject = Null
       THEN MultipleDone(m, "deleteLine", "deleteLine", lineIndex, Null,
                         "threw")
     ELSE [MultipleDone(m, "deleteLine", "deleteLine", lineIndex, Null, "done")
             EXCEPT !.lines = SpliceRemove(c.lines, lineIndex),
                    !.linesSet = TRUE,
                    !.selectedLineIndex = Null,
                    !.spheres = <<>>,
                    !.overlay = onLineDeleted(@, lineIndex)]

\* The listeners an effect of render s registers after render prev
\* (linesChanged: lines is a new array): over s when one of the effect's
\* dependencies changed, otherwise those in place stay.
MultipleMoveEffect(s, prev, linesChanged, old) ==
  IF \/ linesChanged
     \/ s.hoveredLineIndex # prev.hoveredLineIndex
     \/ s.isDragging # prev.isDragging
     \/ s.draggedSphere # prev.draggedSphere
    THEN s ELSE old

MultipleMainEffect(s, prev, linesChanged, old) ==
  IF \/ linesChanged
     \/ s.selectedLineIndex # prev.selectedLineIndex
     \/ s.isDragging # prev.isDragging
     \/ s.draggedSphere # prev.draggedSphere
    THEN s ELSE old

\* React renders the updates made in mousemove, mousedown, mouseup and
\* deleteLine events and by the mount effect (every update, once those of
\* the click and contextmenu events are rendered) and commits.  The
\* passive effects of this render are left pending; until they run the
\* listeners registered before stay in place.
MultipleCommit ==
  LET m == multiple
      now == MultipleSnapshot(m.lines, m.selectedLineIndex, m.hoveredLineIndex,
                              m.isDragging, m.draggedSphere)
  IN /\ m.mounted
     /\ ~m.pending.active
     /\ m.sync.fields = {}
     /\ m.linesSet \/ now # m.rendered
     /\ multiple' = [m EXCEPT !.pending = [active |-> TRUE, snapshot |-> now,
                                           linesChanged |-> m.linesSet],
                              !.linesSet = FALSE]
     /\ UNCHANGED <<engineVars, run, trial>>

\* React renders the updates made in click and contextmenu events, before
\* and without the other updates, and the passive effects of the render
\* are flushed in its commit: the listeners are registered again by the
\* effects whose dependencies changed.
MultipleCommitSync ==
  LET m == multiple
      linesChanged == "lines" \in m.sync.fields
      s == [m.rendered EXCEPT
              !.lines = IF linesChanged THEN m.sync.lines ELSE @,
              !.selectedLineIndex =
                 IF "selectedLineIndex" \in m.sync.fields
                   THEN m.sync.selectedLineIndex ELSE @]
  IN /\ m.mounted
     /\ ~m.pending.active
     /\ m.sync.fields # {}
     /\ multiple' =
          [m EXCEPT !.rendered = s,
                    !.move = MultipleMoveEffect(s, m.rendered, linesChanged, @),
                    !.main = MultipleMainEffect(s, m.rendered, linesChanged, @),
                    !.sync = MultipleNoSync]
     /\ UNCHANGED <<engineVars, run, trial>>

\* The passive effects of the pending render run, each when one of its
\* dependencies changed: the listeners are registered again over the
\* values of that render.
MultipleEffects ==
  LET m == multiple
      s == m.pending.snapshot
  IN /\ m.mounted
     /\ m.pending.active
     /\ multiple' =
          [m EXCEPT !.rendered = s,
                    !.move = MultipleMoveEffect(s, m.rendered,
                                                m.pending.linesChanged, @),
                    !.main = MultipleMainEffect(s, m.rendered,
                                                m.pending.linesChanged, @),
                    !.pending = NoPending]
     /\ UNCHANGED <<engineVars, run, trial>>

\* The component is unmounted (the rendering mode is switched): the
\* cleanup of every effect runs, which removes the listeners.  No cleanup
\* touches spheresRef.current.  (React runs pending passive effects before
\* it renders the parent.)
MultipleUnmount ==
  /\ multiple.mounted
  /\ ~multiple.pending.active
  /\ multiple' = [multiple EXCEPT !.mounted = FALSE, !.listeners = {}]
  /\ UNCHANGED <<engineVars, run, trial>>

\* The parent switches the rendering mode back and a new
\* DisconnectedLinesMultiple is mounted: its state and refs are those of a
\* first render, with lines generated anew.  The parent keeps what it was
\* told.
MultipleMount ==
  /\ ~multiple.mounted
  /\ \E random \in Seeds :
       /\ seed' = random
       /\ multiple' = [MultipleMounted(random)
                         EXCEPT !.overlay = multiple.overlay,
                                !.events = multiple.events]
  /\ UNCHANGED <<lineData, selectedLineIndex, hoveredLineIndex, isDragging,
                 draggedSphere, lineDataSet, rendered, lineRef, spheres,
                 orbitEnabled, geometryColors, geometry, overlay, last,
                 afterDelete, gesture, events, pending, listeners, sync, run,
                 trial>>

\* An event is delivered to a registered listener.
MultipleEvent(ev) ==
  /\ multiple.mounted
  /\ ev \in multiple.listeners
  /\ multiple.events < MaxEvents
  /\ UNCHANGED <<engineVars, run, trial>>

MultipleLineHits(c) == 0..Len(c.lines)

MultipleSphereHits == 0..Len(multiple.spheres)

MultipleMove ==
  /\ MultipleEvent("mousemove")
  /\ \E hit \in MultipleLineHits(multiple.move),
        planePoint \in PointPool \cup {Undefined} :
       /\ IF /\ multiple.move.isDragging
             /\ multiple.move.draggedSphere # NoSphere
            THEN hit = 0 ELSE planePoint = Undefined
       /\ multiple' = MultipleMouseMove(multiple, hit, planePoint)

MultipleDown ==
  /\ MultipleEvent("mousedown")
  /\ \E button \in {0, 2}, hit \in MultipleSphereHits :
       multiple' = MultipleMouseDown(multiple, button, hit)

MultipleUp ==
  /\ MultipleEvent("mouseup")
  /\ multiple' = MultipleMouseUp(multiple)

\* The rounding outcomes that matter for a click on the line object hit.
MultipleRounding(hit, point) ==
  IF hit > 0 /\ LineAt(multiple.main.lines, multiple.main.lines[hit]) # Null
    THEN Rounding(multiple.points[LineAt(multiple.main.lines,
                                         multiple.main.lines[hit]) + 1],
                  point)
    ELSE {{}}

\* A click is handled whatever line it meets; only a click that adds a
\* point is bounded (no line grows beyond MaxPoints points).
MultipleClicked ==
  /\ MultipleEvent("click")
  /\ \E hit \in MultipleLineHits(multiple.main), point \in PointPool :
       \E lower \in MultipleRounding(hit, point) :
         \E after \in {MultipleClick(multiple, hit, point, lower)} :
           /\ (after.last.op = "addPointToLine" /\ after.last.outcome = "done")
                => \A k \in 1..Len(after.points) :
                     Len(after.points[k]) <= MaxPoints
           /\ multiple' = after

MultipleMenu ==
  /\ MultipleEvent("contextmenu")
  /\ \E hit \in MultipleSphereHits :
       multiple' = MultipleContextMenu(multiple, hit)

MultipleDelete ==
  /\ MultipleEvent("deleteLine")
  /\ \E lineIndex \in 0..(numLines - 1) :
       multiple' = MultipleDeleteLineEvent(multiple, lineIndex)

InitMultiple ==
  /\ EngineInit
  /\ run = NoRun
  /\ trial = NoTrial
  /\ multiple = MultipleInit

NextMultiple ==
  \/ MultipleCommit
  \/ MultipleCommitSync
  \/ MultipleEffects
  \/ MultipleUnmount
  \/ MultipleMount
  \/ MultipleMove
  \/ MultipleDown
  \/ MultipleUp
  \/ MultipleClicked
  \/ MultipleMenu
  \/ MultipleDelete

SpecMultiple == InitMultiple /\ [][NextMultiple]_vars


\* ================================================================ claims
\* A step that handles event ev and runs operation op.
Handled(ev, op) == events' = events + 1 /\ last'.ev = ev /\ last'.op = op

\* The segments a line stands for: points - 1 when it has at least 2 points.
LineSegments(points) == IF Len(points) >= 2 THEN Len(points) - 1 ELSE 0

TotalLineSegments(linePoints) ==
  SumSeq([l \in 1..Len(linePoints) |-> LineSegments(linePoints[l])])

\* The stores a state holds: the latest one and the rendered one.
Stores == {ld \in {lineData, rendered.lineData} : ~ld.isNull}

\* C1 (as claimed): every entry of linePoints has 0 points or at least 2
\* points, and no undefined point.
C1_DeadOrAtLeastTwoPoints ==
  \A ld \in Stores : \A l \in 1..Len(ld.linePoints) :
    LET points == ld.linePoints[l]
    IN \/ Len(points) = 0
       \/ /\ Len(points) >= 2
          /\ \A k \in 1..Len(points) : points[k] # Undefined

\* C2: the stored positions, originalColors and segmentToLineMap are what
\* rebuildGeometry returns for the stored linePoints and lineColors.
C2_DerivedDataMatchesStore ==
  \A ld \in Stores :
    \E g \in {rebuildGeometry(ld.linePoints, ld.lineColors)} :
      /\ ~g.threw
      /\ ld.positions = g.positions
      /\ ld.colors = g.colors
      /\ ld.originalColors = g.originalColors
      /\ ld.segmentToLineMap = g.segmentToLineMap

C2_Witness ==
  /\ last.op = "updatePointPosition" /\ last.outcome = "done"
  /\ lineData # initialLineData
  /\ lineData # rendered.lineData

\* C3: segmentToLineMap[i] is an alive line L, and positions[6i..6i+5] hold
\* the coordinates (as Float32 values) of points j and j + 1 of L, j being i
\* minus the segments of the lines before L.
C3_ReverseIndexLocatesSegment ==
  \A ld \in Stores : \A i \in 0..(Len(ld.segmentToLineMap) - 1) :
    LET L == At(ld.segmentToLineMap, i)
    IN /\ L >= 0 /\ L < Len(ld.linePoints)
       /\ Len(At(ld.linePoints, L)) >= 2
       /\ 6 * i + 6 <= Len(ld.positions)
       /\ LET points == At(ld.linePoints, L)
              j == i - TotalLineSegments(SubSeq(ld.linePoints, 1, L))
          IN /\ j >= 0 /\ j <= Len(points) - 2
             /\ \A c \in 0..2 :
                  /\ At(ld.positions, 6 * i + c) = F32(At(At(points, j), c))
                  /\ At(ld.positions, 6 * i + 3 + c) = F32(At(At(points, j + 1), c))

\* A store where the offset matters: a line that is dead or has grown comes
\* before an alive line.
C3_Witness ==
  /\ ~lineData.isNull
  /\ Len(lineData.linePoints[1]) # pointsPerLine
  /\ Len(lineData.linePoints[2]) >= 2

\* C4: segmentToLineMap has one entry per segment of the lines with at
\* least 2 points, and none for the others.
C4_SegmentCount ==
  \A ld \in Stores :
    Len(ld.segmentToLineMap) = TotalLineSegments(ld.linePoints)

C4_Witness ==
  /\ ~lineData.isNull
  /\ \E l \in 1..Len(lineData.linePoints) : Len(lineData.linePoints[l]) < 2
  /\ \E l \in 1..Len(lineData.linePoints) : Len(lineData.linePoints[l]) > pointsPerLine

\* C5: positions, colors and originalColors have the same length, 6 times
\* that of segmentToLineMap.
C5_BufferLengths ==
  \A ld \in Stores :
    /\ Len(ld.positions) = 6 * Len(ld.segmentToLineMap)
    /\ Len(ld.colors) = Len(ld.positions)
    /\ Len(ld.originalColors) = Len(ld.positions)

C5_Witness ==
  /\ last.op = "deleteLine" /\ last.outcome = "done"
  /\ Len(lineData.positions) < Len(initialLineData.positions)

\* C6: deletePoint on a line that has 2 points or fewer changes nothing: no
\* store is set.
C6_DeletePointRefused ==
  [][(/\ Handled("contextmenu", "deletePoint")
      /\ Len(At(rendered.lineData.linePoints, last'.lineIndex)) <= 2)
     => /\ last'.outcome = "refused"
        /\ lineData' = lineData
        /\ lineDataSet' = lineDataSet]_vars

C6_Witness ==
  /\ last.ev = "contextmenu" /\ last.op = "deletePoint"
  /\ last.outcome = "refused"
  /\ Len(At(rendered.lineData.linePoints, last.lineIndex)) = 2

\* C7: deleting line k empties line k only: same number of lines, every
\* other line as it was, no entry k left in segmentToLineMap, and
\* (points of k) - 1 segments fewer.
C7_DeleteLineFrame ==
  [][Handled("deleteLine", "deleteLine") =>
       LET k == last'.lineIndex
           before == rendered.lineData
           after == lineData'
       IN /\ Len(after.linePoints) = Len(before.linePoints)
          /\ At(after.linePoints, k) = <<>>
          /\ \A l \in 0..(Len(before.linePoints) - 1) :
               l # k => At(after.linePoints, l) = At(before.linePoints, l)
          /\ \A i \in 1..Len(after.segmentToLineMap) :
               after.segmentToLineMap[i] # k
          /\ Len(after.segmentToLineMap) =
               Len(before.segmentToLineMap)
                 - (Len(At(before.linePoints, k)) - 1)]_vars

C7_Witness ==
  /\ last.ev = "deleteLine" /\ last.op = "deleteLine"
  /\ lineData.linePoints[last.lineIndex + 1] = <<>>
  /\ \E l \in 1..Len(lineData.linePoints) : Len(lineData.linePoints[l]) >= 2

\* C8 (as claimed): a delete-line command whose index is not the selected
\* line index of the engine (no line selected included) is ignored:
\* deleteLine and onLineDeleted are not called, and store, selection, hover,
\* handles and the parent are untouched.
C8_OtherDeleteIgnored ==
  [][(/\ events' = events + 1 /\ last'.ev = "deleteLine"
      /\ last'.lineIndex # selectedLineIndex)
     => /\ last'.outcome = "ignored"
        /\ UNCHANGED <<lineData, lineDataSet, selectedLineIndex,
                       hoveredLineIndex, spheres, overlay>>]_vars

\* C9 (as claimed): once a delete-line command for the selected line is
\* handled, no line is selected and no handle exists, until a click selects
\* a line.
C9_ClearedUntilSelect ==
  afterDelete => selectedLineIndex = Null /\ spheres = <<>>

\* C10 (as claimed): updatePointPosition with a lineIndex or pointIndex out
\* of range raises nothing and changes nothing.
C10_OutOfRangeMoveIsNoOp ==
  [][(/\ Handled("mousemove", "updatePointPosition")
      /\ LET lp == rendered.lineData.linePoints
         IN \/ ~(last'.lineIndex >= 0 /\ last'.lineIndex < Len(lp))
            \/ ~(last'.pointIndex >= 0
                 /\ last'.pointIndex < Len(At(lp, last'.lineIndex))))
     => /\ last'.outcome # "threw"
        /\ lineData' = lineData
        /\ lineDataSet' = lineDataSet]_vars

\* C11: on an alive line, addPointToLine followed by deletePoint at the
\* index where the point went gives back the line's point sequence (the
\* whole store's), and positions and segmentToLineMap as they were before
\* the insert.
C11_AddThenDeleteRestores ==
  /\ trial.pc # "refused"
  /\ trial.pc = "added" =>
       Len(At(trial.store.linePoints, trial.lineIndex)) =
         Len(At(trial.given.linePoints, trial.lineIndex)) + 1
  /\ trial.pc = "deleted" =>
       /\ At(trial.store.linePoints, trial.lineIndex) =
            At(trial.given.linePoints, trial.lineIndex)
       /\ trial.store.linePoints = trial.given.linePoints
       /\ trial.store.positions = trial.given.positions
       /\ trial.store.segmentToLineMap = trial.given.segmentToLineMap

\* A point added in the middle of a line of 3 points and deleted again,
\* with a dead line in the store.
C11_Witness ==
  /\ trial.pc = "deleted"
  /\ trial.pointIndex = 2
  /\ Len(At(trial.given.linePoints, trial.lineIndex)) = 3
  /\ \E l \in 1..Len(trial.given.linePoints) : trial.given.linePoints[l] = <<>>

\* C13 (as claimed): no geometry object is constructed after the first
\* one: every edit is shown by the geometry that existed before it.
C13_OneGeometryForEver == geometry <= 1

\* C12: two calls of rebuildGeometry on the same arguments return the same
\* positions, colors, originalColors and segmentToLineMap (the value of
\* rebuildGeometry for these arguments), and the arguments are never
\* written.
C12_RebuildDeterministic ==
  /\ run.pc # "idle" =>
       /\ run.newLinePoints = run.given.linePoints
       /\ run.lineColors = run.given.lineColors
  /\ run.pc = "done" =>
       \E g \in {rebuildGeometry(run.given.linePoints, run.given.lineColors)} :
         /\ run.first = run.second
         /\ ~g.threw
         /\ run.first.positions = g.positions
         /\ run.first.colors = g.colors
         /\ run.first.originalColors = g.originalColors
         /\ run.first.segmentToLineMap = g.segmentToLineMap

\* Both calls returned, for arguments with a skipped line and an emitted
\* line of more than one segment.
C12_Witness ==
  /\ run.pc = "done"
  /\ Len(run.first.segmentToLineMap) >= 2
  /\ \E l \in 1..Len(run.given.linePoints) : Len(run.given.linePoints[l]) = 1
  /\ \E l \in 1..Len(run.given.linePoints) : Len(run.given.linePoints[l]) >= 3

\* The component is mounted and no render and no effect is pending: the
\* listeners and effects are those of the latest state.
Settled ==
  /\ listeners # {}
  /\ ~lineDataSet
  /\ ~pending.active
  /\ sync.fields = {}
  /\ rendered = Snapshot(lineData, selectedLineIndex, hoveredLineIndex,
                         isDragging, draggedSphere)

\* C14: once the effects have run, every segment is shown in the selection
\* colour if its line is the selected one, else in the hover colour if its
\* line is the hovered one, else in its line's colour as originalColors
\* holds it.
C14_ShownColors ==
  (Settled /\ ~lineData.isNull) =>
    /\ Len(geometryColors) = 6 * Len(lineData.segmentToLineMap)
    /\ \A s \in 0..(Len(lineData.segmentToLineMap) - 1) : \A i \in 0..5 :
         LET owner == At(lineData.segmentToLineMap, s)
             shown == At(geometryColors, 6 * s + i)
         IN IF selectedLineIndex # Null /\ owner = selectedLineIndex
              THEN shown = ColorF32(SelectedColor[(i % 3) + 1])
            ELSE IF hoveredLineIndex # Null /\ owner = hoveredLineIndex
              THEN shown = ColorF32(HoverColor[(i % 3) + 1])
            ELSE /\ shown = At(lineData.originalColors, 6 * s + i)
                 /\ shown = ColorF32(At(lineData.lineColors, owner)[(i % 3) + 1])

\* A line both hovered and selected, another line in its own colour.
C14_Witness ==
  /\ Settled
  /\ selectedLineIndex # Null
  /\ hoveredLineIndex = selectedLineIndex
  /\ \E s \in 1..Len(lineData.segmentToLineMap) :
       lineData.segmentToLineMap[s] = selectedLineIndex
  /\ \E s \in 1..Len(lineData.segmentToLineMap) :
       lineData.segmentToLineMap[s] # selectedLineIndex

\* C15 (as claimed): with no render pending, there is no handle marker when
\* no line is selected, and otherwise one marker per point of the selected
\* line, marker i tagged (selectedLineIndex, i) and placed at point i.
C15_MarkersOfSelectedLine ==
  (Settled /\ ~lineData.isNull) =>
    IF selectedLineIndex = Null THEN spheres = <<>>
    ELSE
      LET points == At(lineData.linePoints, selectedLineIndex)
      IN /\ Len(spheres) = Len(points)
         /\ \A i \in 1..Len(spheres) :
              /\ spheres[i].lineIndex = selectedLineIndex
              /\ spheres[i].pointIndex = i - 1
              /\ i <= Len(points) /\ spheres[i].position = points[i]

\* C16: the orbit controls are enabled exactly when the engine is not
\* dragging.
C16_OrbitOffWhileDragging == orbitEnabled = ~isDragging

\* A drag was started and the pointer up ended it.
C16_Witness ==
  /\ last.ev = "mouseup" /\ last.op = "endDrag"
  /\ ~isDragging /\ orbitEnabled
  /\ selectedLineIndex # Null

\* C17 (as claimed): after a pointer up is handled the engine is not
\* dragging and holds no dragged handle.
C17_PointerUpEndsDrag ==
  [][(events' = events + 1 /\ last'.ev = "mouseup")
     => (~isDragging' /\ draggedSphere' = NoSphere)]_vars

\* C18 (as claimed): the selected line index the overlay was last told is
\* the engine's selectedLineIndex.
C18_OverlayKnowsSelection == overlay.selectedLineIndex = selectedLineIndex

\* The store operation handled last has set lineData, and a render of
\* lineData is still to come.
JustSet(op) == last.op = op /\ last.outcome = "done" /\ lineDataSet

\* Segments of the lines before line L (0-based).
SegmentsBefore(ld, L) == TotalLineSegments(SubSeq(ld.linePoints, 1, L))

\* C19 (as claimed, the buffer entries read as Float32 values): a drag move
\* of point p of line L keeps every line's point count and every other
\* point, keeps segmentToLineMap and originalColors, and in positions
\* changes only the entries of point p in the segments of L that touch it,
\* to the new coordinates.
C19_DragMoveFrame ==
  [][(Handled("mousemove", "updatePointPosition") /\ last'.outcome = "done") =>
    LET before == rendered.lineData
        after == lineData'
        L == last'.lineIndex
        p == last'.pointIndex
        base == SegmentsBefore(before, L)
        \* positions index -> the component it holds of point p, or -1
        component(idx) ==
          LET seg == idx \div 6
              end == (idx % 6) \div 3
          IN IF seg - base + end = p /\ seg >= base
                /\ seg < base + LineSegments(At(before.linePoints, L))
               THEN idx % 3 ELSE -1
    IN /\ Len(after.linePoints) = Len(before.linePoints)
       /\ \A l \in 0..(Len(before.linePoints) - 1) :
            /\ Len(At(after.linePoints, l)) = Len(At(before.linePoints, l))
            /\ \A k \in 0..(Len(At(before.linePoints, l)) - 1) :
                 (l # L \/ k # p) =>
                   At(At(after.linePoints, l), k) = At(At(before.linePoints, l), k)
       /\ after.segmentToLineMap = before.segmentToLineMap
       /\ after.originalColors = before.originalColors
       /\ Len(after.positions) = Len(before.positions)
       /\ \A idx \in 0..(Len(before.positions) - 1) :
            At(after.positions, idx) =
              IF component(idx) >= 0
                THEN F32(At(At(after.linePoints, L), p)[component(idx) + 1])
                ELSE At(before.positions, idx)]_vars

\* C20: addPointToLine of a point on line L of a store, s being the segment
\* of L closest to the point, puts the point at index s + 1 of L: L has one
\* point more, the points before and after keep their values and order, no
\* other line changes, and segmentToLineMap gets one more entry L, the
\* entries of the lines after L moving up by one.
C20_AddPointFrame ==
  trial.pc = "added" =>
    LET before == trial.given
        after == trial.store
        L == trial.lineIndex
        point == trial.intersectionPoint
        s == findClosestSegment(before, L, point, trial.lower)
        old == At(before.linePoints, L)
        new == At(after.linePoints, L)
        base == SegmentsBefore(before, L)
    IN /\ s \in 0..(Len(old) - 2)
       /\ Len(new) = Len(old) + 1
       /\ At(new, s + 1) = point
       /\ \A k \in 0..s : At(new, k) = At(old, k)
       /\ \A k \in (s + 1)..(Len(old) - 1) : At(new, k + 1) = At(old, k)
       /\ Len(after.linePoints) = Len(before.linePoints)
       /\ \A l \in 0..(Len(before.linePoints) - 1) :
            l # L => At(after.linePoints, l) = At(before.linePoints, l)
       /\ Len(after.segmentToLineMap) = Len(before.segmentToLineMap) + 1
       /\ \A i \in 0..(Len(before.segmentToLineMap) - 1) :
            LET owner == At(before.segmentToLineMap, i)
            IN At(after.segmentToLineMap, IF owner > L THEN i + 1 ELSE i) = owner
       /\ At(after.segmentToLineMap, base + Len(old) - 1) = L

\* A point added after the second segment of a line of 3 points or more
\* that has a line with segments after it.
C20_Witness ==
  /\ trial.pc = "added"
  /\ Len(At(trial.given.linePoints, trial.lineIndex)) >= 3
  /\ findClosestSegment(trial.given, trial.lineIndex,
                        trial.intersectionPoint, trial.lower) = 1
  /\ At(At(trial.store.linePoints, trial.lineIndex), 2) =
       trial.intersectionPoint
  /\ \E l \in (trial.lineIndex + 1)..(numLines - 1) :
       Len(At(trial.given.linePoints, l)) >= 2

\* ---------------------------------------------------------------- C21..
\* C21: a right-click, handled while not dragging, on a handle of the
\* selected line whose line has more than 2 points removes the point at the
\* handle's pointIndex from the store the listener read: the line is one
\* point shorter, the other points keep their values and order, no other
\* line changes, and the selection is the one before.
C21_RightClickRemovesPoint ==
  [][(/\ Handled("contextmenu", "deletePoint")
      /\ Len(At(rendered.lineData.linePoints, last'.lineIndex)) > 2) =>
       LET before == rendered.lineData.linePoints
           after == lineData'.linePoints
           L == last'.lineIndex
           p == last'.pointIndex
           old == At(before, L)
           new == At(after, L)
       IN /\ ~rendered.isDragging
          /\ L = rendered.selectedLineIndex
          /\ p >= 0 /\ p < Len(old)
          /\ Len(new) = Len(old) - 1
          /\ \A k \in 0..(Len(new) - 1) :
               At(new, k) = At(old, IF k < p THEN k ELSE k + 1)
          /\ Len(after) = Len(before)
          /\ \A l \in 0..(Len(before) - 1) :
               l # L => At(after, l) = At(before, l)
          /\ selectedLineIndex' = selectedLineIndex]_vars

\* A point other than the last was removed from a line of three points and
\* the line is still selected.
C21_Witness ==
  /\ JustSet("deletePoint")
  /\ last.ev = "contextmenu"
  /\ Len(At(rendered.lineData.linePoints, last.lineIndex)) = 3
  /\ last.pointIndex < 2
  /\ selectedLineIndex = last.lineIndex

\* C22 (as claimed): a pointer move handled while not dragging leaves the
\* hover state at the line owning the hit segment, or at none when nothing
\* is hit, and changes neither the selection, the line store nor the handle
\* markers.
C22_HoverFollowsPointer ==
  [][Handled("mousemove", "hover") =>
       /\ hoveredLineIndex' = last'.lineIndex
       /\ UNCHANGED <<selectedLineIndex, lineData, lineDataSet, spheres>>]_vars

\* C23 (as claimed): a click handled while not dragging has one of three
\* outcomes.  A hit on the selected line adds one point to it and leaves it
\* selected; a hit on another line makes that line the selected one and
\* leaves the line store alone; a miss clears the selection and the handle
\* markers and leaves the line store alone.
C23_ClickOutcomes ==
  [][(events' = events + 1 /\ last'.ev = "click"
      /\ last'.outcome # "skipped") =>
       LET L == last'.lineIndex
       IN \/ /\ last'.op = "addPointToLine"
             /\ L = rendered.selectedLineIndex
             /\ Len(At(lineData'.linePoints, L)) =
                  Len(At(rendered.lineData.linePoints, L)) + 1
             /\ \A l \in 0..(Len(lineData'.linePoints) - 1) :
                  l # L => At(lineData'.linePoints, l) =
                             At(rendered.lineData.linePoints, l)
             /\ selectedLineIndex' = L
          \/ /\ last'.op = "select"
             /\ L # rendered.selectedLineIndex
             /\ selectedLineIndex' = L
             /\ lineData' = lineData
          \/ /\ last'.op = "deselect"
             /\ L = Null
             /\ selectedLineIndex' = Null
             /\ spheres' = <<>>
             /\ lineData' = lineData]_vars

\* C24 (as claimed): while the engine is dragging, a click and a
\* context-menu event change neither the line store, the selection nor the
\* handle markers.
C24_NoClickWhileDragging ==
  [][(events' = events + 1 /\ last'.ev \in {"click", "contextmenu"}
      /\ isDragging) =>
       UNCHANGED <<lineData, lineDataSet, selectedLineIndex, spheres>>]_vars

\* C25: an event handled by the listeners of a render that has no line data
\* yet (lineData null, line object not constructed) is skipped or ignored:
\* no store is set from it, the selection, hover and dragging state and the
\* handle markers stay as they are, and nothing is raised; each store
\* operation of that render returns without setting a store.
C25_SkippedBeforeLineData ==
  [][(events' = events + 1 /\ (rendered.lineData.isNull \/ ~lineRef)) =>
       /\ last'.outcome \in {"skipped", "ignored"}
       /\ UNCHANGED <<lineData, lineDataSet, selectedLineIndex,
                      hoveredLineIndex, isDragging, draggedSphere, spheres,
                      orbitEnabled>>
       /\ \A l \in 0..(numLines - 1), q \in PointPool :
            LET none == rendered.lineData
            IN /\ none.isNull
               /\ \A r \in {deleteLine(none, l), deletePoint(none, l, 0),
                             updatePointPosition(none, l, 0, q),
                             addPointToLine(none, l, q, {})} :
                    ~r.set /\ ~r.threw /\ r.lineData.isNull]_vars

\* A pointer event was handled before the first render with line data.
C25_Witness ==
  /\ rendered.lineData.isNull /\ ~lineRef
  /\ events = MaxEvents
  /\ last.ev = "click" /\ last.outcome = "skipped"
  /\ selectedLineIndex = Null /\ hoveredLineIndex = Null /\ ~isDragging

\* C26: lineColors and linePoints always have one entry per line of the
\* initial data, and every line keeps the base color it was given at
\* initialization.
C26_LineColorsFixed ==
  ~lineData.isNull =>
    /\ Len(lineData.lineColors) = numLines
    /\ Len(lineData.linePoints) = numLines
    /\ lineData.lineColors = initialLineData.lineColors
    /\ \A l \in 0..(numLines - 1) : At(lineData.lineColors, l) = InitColor(l)

\* Line 0 was deleted and a point was then added to the line after it.
C26_Witness ==
  /\ JustSet("addPointToLine")
  /\ last.lineIndex > 0
  /\ At(lineData.linePoints, 0) = <<>>
  /\ Len(lineData.lineColors) = numLines

\* C27: the effects that re-colorize after a render in which the hovered
\* or the selected line changed leave lineData as it is: positions,
\* linePoints, segmentToLineMap, colors and originalColors are the ones
\* before, and only the displayed colour buffer is written, with the
\* colours of the rendered store, selection and hover.
C27_RecolorWritesDisplayOnly ==
  [][(/\ events' = events
      /\ ~rendered'.lineData.isNull
      /\ \/ rendered'.selectedLineIndex # rendered.selectedLineIndex
         \/ rendered'.hoveredLineIndex # rendered.hoveredLineIndex) =>
       /\ geometryColors' = Colorize(rendered'.lineData,
                                     rendered'.selectedLineIndex,
                                     rendered'.hoveredLineIndex)
       /\ lineData'.positions = lineData.positions
       /\ lineData'.linePoints = lineData.linePoints
       /\ lineData'.segmentToLineMap = lineData.segmentToLineMap
       /\ lineData'.colors = lineData.colors
       /\ lineData'.originalColors = lineData.originalColors]_vars

\* A hovered line is displayed in the hover colour while the store keeps
\* its base colours.
C27_Witness ==
  /\ Settled
  /\ hoveredLineIndex # Null /\ hoveredLineIndex # selectedLineIndex
  /\ \E s \in 1..Len(lineData.segmentToLineMap) :
       lineData.segmentToLineMap[s] = hoveredLineIndex
  /\ geometryColors # lineData.colors
  /\ lineData.colors = lineData.originalColors

\* The lineData whose arrays are at refs in heap, read field by field.
Deref(heap, refs) ==
  [linePoints |-> [l \in 1..Len(heap[refs.linePoints]) |->
                     heap[heap[refs.linePoints][l]]],
   positions |-> heap[refs.positions],
   colors |-> heap[refs.colors],
   originalColors |-> heap[refs.originalColors],
   segmentToLineMap |-> heap[refs.segmentToLineMap]]

\* C28: after add point, move point, delete point and delete line, the
\* arrays of the lineData held before the mutation have the content they
\* had: its outer linePoints array still holds the same point arrays, each
\* with the same points, and its buffers and segmentToLineMap are as they
\* were.  The new lineData has an outer array and a point array for the
\* edited line that the held one does not have, and holds what the
\* mutation computed.
C28_CopyOnWrite ==
  trial.pc \in {"added", "deleted", "moved", "pointDeleted", "lineDeleted"} =>
    LET snapshot == Deref(trial.heap, trial.held)
        current == Deref(trial.heap, trial.refs)
        n == Len(trial.given.linePoints)
    IN /\ trial.heap[trial.held.linePoints] = [l \in 1..n |-> l]
       /\ snapshot.linePoints = trial.given.linePoints
       /\ snapshot.positions = trial.given.positions
       /\ snapshot.colors = trial.given.colors
       /\ snapshot.originalColors = trial.given.originalColors
       /\ snapshot.segmentToLineMap = trial.given.segmentToLineMap
       /\ trial.refs.linePoints # trial.held.linePoints
       /\ trial.heap[trial.refs.linePoints][trial.lineIndex + 1] > n
       /\ current.linePoints = trial.store.linePoints
       /\ current.positions = trial.store.positions
       /\ current.segmentToLineMap = trial.store.segmentToLineMap

\* A point of a line was moved: the new lineData differs from the held one
\* in that line and shares the point arrays of the other lines.
C28_Witness ==
  /\ trial.pc = "moved"
  /\ At(trial.store.linePoints, trial.lineIndex) #
       At(trial.given.linePoints, trial.lineIndex)
  /\ Len(At(trial.given.linePoints, trial.lineIndex)) >= 2
  /\ \A l \in 1..Len(trial.given.linePoints) :
       l # trial.lineIndex + 1 =>
         trial.heap[trial.refs.linePoints][l] =
           trial.heap[trial.held.linePoints][l]

\* Segment i of points has two different end points.
NonZeroLength(points, i) == At(points, i) # At(points, i + 1)

\* The displacement of p along x, in units of eta.
Tiny(p) == IF Displaced(p) THEN p[4] ELSE 0

\* The rate, a fraction, at which the squared distance from q to segment
\* p1 p2 grows with eta, the displaced end points moving along x: the
\* derivative of |w|^2 - s^2 / len2 where the projection falls inside the
\* segment, and of the squared distance to the end point it is clamped to
\* elsewhere (the two agree where they meet).
Drift(p1, p2, q) ==
  LET line == Sub(p2, p1)
      len2 == Dot(line, line)
      w == Sub(q, p1)
      s == Dot(w, line)
      e1 == Tiny(p1)
      e2 == Tiny(p2)
      ds == (e2 - e1) * w[1] - e1 * line[1]
      dlen2 == 2 * (e2 - e1) * line[1]
  IN IF s <= 0 THEN <<-2 * e1 * w[1], 1>>
     ELSE IF s >= len2 THEN <<-2 * e2 * (q[1] - p2[1]), 1>>
     ELSE <<s * s * dlen2 - 2 * s * ds * len2 - 2 * e1 * w[1] * len2 * len2,
            len2 * len2>>

\* As real numbers, the distance of q to segment i of points is smaller
\* than that to segment j (both of non-zero length): it is smaller on the
\* coordinates seen, or the same there and growing more slowly with eta.
Nearer(points, q, i, j) ==
  LET a == SegmentDistance2(At(points, i), At(points, i + 1), q)
      b == SegmentDistance2(At(points, j), At(points, j + 1), q)
  IN \/ FracLess(a, b)
     \/ /\ FracEq(a, b)
        /\ FracLess(Drift(At(points, i), At(points, i + 1), q),
                    Drift(At(points, j), At(points, j + 1), q))

\* The distance of q to segment i of points is at most that to segment j.
NoFarther(points, q, i, j) == ~Nearer(points, q, j, i)

\* C29 (as claimed): on a line of n >= 2 points findClosestSegment returns
\* an index in 0..n-2.  When some segment has non-zero length, the segment
\* returned has non-zero length, no segment of non-zero length is closer to
\* the intersection point, and every such segment with a lower index is
\* farther; when every segment has zero length it returns 0.
C29_ClosestSegment ==
  trial.pc = "closest" =>
    LET points == trial.points
        q == trial.intersectionPoint
        s == trial.segmentIndex
        segments == 0..(Len(points) - 2)
        candidates == {i \in segments : NonZeroLength(points, i)}
    IN /\ s \in segments
       /\ IF candidates = {} THEN s = 0
          ELSE /\ s \in candidates
               /\ \A i \in candidates : NoFarther(points, q, s, i)
               /\ \A i \in candidates :
                    i < s => ~NoFarther(points, q, i, s)

\* C30: addPointToLine on a line of n >= 2 points inserts at an index in
\* 1..n-1, so the line's first and last points are the ones it had; the
\* index findClosestSegment returns plus one is in 1..n-1 for every point
\* sequence, segments of zero length included.
C30_EndPointsKept ==
  /\ trial.pc = "added" =>
       LET old == At(trial.given.linePoints, trial.lineIndex)
           new == At(trial.store.linePoints, trial.lineIndex)
       IN /\ trial.pointIndex \in 1..(Len(old) - 1)
          /\ Len(new) = Len(old) + 1
          /\ new[1] = old[1]
          /\ new[Len(new)] = old[Len(old)]
  /\ trial.pc = "closest" =>
       trial.segmentIndex + 1 \in 1..(Len(trial.points) - 1)

\* A point was inserted just before the last point of a line of 3 points.
C30_Witness ==
  /\ trial.pc = "added"
  /\ Len(At(trial.given.linePoints, trial.lineIndex)) = 3
  /\ trial.pointIndex = 2
  /\ At(At(trial.store.linePoints, trial.lineIndex), 3) =
       At(At(trial.given.linePoints, trial.lineIndex), 2)

\* ---------------------------------------------------------------- C31..
\* C31: until the first event, lineData is initialLineData, and its buffers
\* are the ones rebuildGeometry returns for its linePoints and lineColors;
\* every line has pointsPerLine points and segment s belongs to line
\* floor(s / segmentsPerLine).
C31_InitialMatchesRebuild ==
  last.ev = "mount" =>
    LET g == rebuildGeometry(lineData.linePoints, lineData.lineColors)
    IN /\ lineData = initialLineData
       /\ ~g.threw
       /\ lineData.positions = g.positions
       /\ lineData.colors = g.colors
       /\ lineData.originalColors = g.originalColors
       /\ lineData.segmentToLineMap = g.segmentToLineMap
       /\ lineData.segmentsPerLine = pointsPerLine - 1
       /\ Len(lineData.linePoints) = numLines
       /\ \A l \in 0..(numLines - 1) :
            Len(At(lineData.linePoints, l)) = pointsPerLine
       /\ Len(lineData.segmentToLineMap) = numLines * (pointsPerLine - 1)
       /\ \A s \in 0..(Len(lineData.segmentToLineMap) - 1) :
            At(lineData.segmentToLineMap, s) = s \div lineData.segmentsPerLine

\* The first render with the initial line data is done and no event was
\* handled.
C31_Witness ==
  /\ last.ev = "mount"
  /\ lineRef
  /\ rendered.lineData = initialLineData
  /\ Len(lineData.positions) = 6 * numLines * (pointsPerLine - 1)

\* Line L of ld has at least 2 points.
Alive(ld, L) ==
  /\ L >= 0 /\ L < Len(ld.linePoints)
  /\ Len(At(ld.linePoints, L)) >= 2

\* C32 (as claimed): the selected line index is none or the index of a
\* line with at least 2 points.
C32_SelectionAlive ==
  selectedLineIndex # Null => Alive(lineData, selectedLineIndex)

\* C33 (as claimed): the hovered line index held by the engine, and the one
\* last emitted to the overlay, is none or the index of a line with at
\* least 2 points.
C33_HoverAlive ==
  /\ hoveredLineIndex # Null => Alive(lineData, hoveredLineIndex)
  /\ overlay.hoveredLineIndex # Null => Alive(lineData, overlay.hoveredLineIndex)

\* C34 (as claimed): while the engine is dragging, the dragged handle is a
\* handle of the selected line, that line has at least 2 points, and the
\* handle's pointIndex is an index into the line's points.
C34_DraggedHandleValid ==
  isDragging =>
    /\ draggedSphere # NoSphere
    /\ draggedSphere.lineIndex = selectedLineIndex
    /\ Alive(lineData, draggedSphere.lineIndex)
    /\ draggedSphere.pointIndex >= 0
    /\ draggedSphere.pointIndex <
         Len(At(lineData.linePoints, draggedSphere.lineIndex))

\* C35 (as claimed): the click that ends a drag gesture on a handle
\* (mousedown on the handle, mousemoves, mouseup, and the click dispatched
\* in the task of the mouseup) changes no line's point count and leaves the
\* selection as it is.
C35_TrailingClickIgnored ==
  [][(/\ gesture = "up"
      /\ events' = events + 1 /\ last'.ev = "click") =>
       /\ Len(lineData'.linePoints) = Len(lineData.linePoints)
       /\ \A l \in 0..(Len(lineData.linePoints) - 1) :
            Len(At(lineData'.linePoints, l)) = Len(At(lineData.linePoints, l))
       /\ selectedLineIndex' = selectedLineIndex]_vars

\* C36 (as claimed): in the per-line engine every stored line object is
\* stored at the index it carries in userData.lineIndex, so a hit on its
\* primitive resolves to its own data.
C36_LineIndexResolves ==
  multiple.mounted =>
    \A k \in 1..Len(multiple.lines) :
      LineAt(multiple.lines, multiple.lines[k]) = multiple.lines[k]

\* C37 (as claimed): in the per-line engine, after every handled event the
\* selected line index last emitted to the overlay is the engine's
\* selectedLineIndex.
C37_MultipleOverlayKnowsSelection ==
  (multiple.mounted /\ multiple.events > 0) =>
    multiple.overlay.selectedLineIndex = multiple.selectedLineIndex

\* C39 (as claimed): once the per-line engine is torn down, none of its
\* handle markers is left in the scene and none of its listeners is
\* registered.
C39_TeardownLeavesNothing ==
  ~multiple.mounted =>
    /\ multiple.spheres = <<>>
    /\ multiple.listeners = {}

\* The batched store that holds the point sequences of the per-line mode.
C38_BatchedStore ==
  NewLineData(rebuildGeometry(multiple.points,
                              [l \in 1..numLines |-> InitColor(l - 1)]),
              [l \in 1..numLines |-> InitColor(l - 1)],
              pointsPerLine - 1, multiple.points)

\* The points of line lineIndex after a batched operation on store
\* returned r.
C38_BatchedLine(store, r, lineIndex) ==
  IF r.set THEN At(r.lineData.linePoints, lineIndex)
  ELSE At(store.linePoints, lineIndex)

====
